---- MODULE Spec2Model ----
(***************************************************************************)
(* Model of the process-mining dashboard: the event-log builder            *)
(* (utils/data_loader.py) and the Streamlit session that drives it         *)
(* (app.py).                                                               *)
(*                                                                         *)
(* A raw table (pandas DataFrame) is a record [columns, rows]; a row maps  *)
(* each column name to a cell.  A cell is [k, f, v]:                       *)
(*   k = "nan"    an empty cell (NaN)                                      *)
(*   k = "txt"    a text that is neither a number nor a date; v names it   *)
(*                (v = 0 is the text "nan" that str() makes of NaN)        *)
(*   k = "int"    the number v                                             *)
(*   k = "numstr" the text of the decimal numeral of v                     *)
(*   k = "date"   the text of instant v written in the layout formats[f]   *)
(*                (f = 0: a layout only generic inference understands)     *)
(*   k = "daymonth" a text dd/mm/yyyy hh:mm:ss whose day is at most 12:    *)
(*                formats[2] reads it as instant v, formats[3] and a       *)
(*                month-first reading as the instant with day and month    *)
(*                exchanged                                                *)
(* Instants are integers (seconds).                                        *)
(***************************************************************************)
EXTENDS Integers, Sequences, FiniteSets, TLC

\* ------------------------------------------------------------------ bounds
MaxRows == 2
MaxCases == 2

\* ------------------------------------------------------------------- cells
NaN == [k |-> "nan", f |-> 0, v |-> 0]
Txt(n) == [k |-> "txt", f |-> 0, v |-> n]
IntCell(n) == [k |-> "int", f |-> 0, v |-> n]
NumStr(n) == [k |-> "numstr", f |-> 0, v |-> n]
DateStr(fi, t) == [k |-> "date", f |-> fi, v |-> t]
DayMonthStr(t) == [k |-> "daymonth", f |-> 2, v |-> t]
\* an attribute an event does not have
NoCell == [k |-> "absent", f |-> 0, v |-> 0]

\* Python values None and "" of a field mapping, and an absent optional value
None == "<None>"
Empty == ""

\* pandas NaT / a resolved instant
NaT == [ok |-> FALSE, t |-> 0]
At(t) == [ok |-> TRUE, t |-> t]

\* a float result of pd.to_numeric / an absent attribute
NumNaN == [k |-> "nan", v |-> 0]
Num(n) == [k |-> "num", v |-> n]
Absent == [k |-> "absent", v |-> 0]

\* Series.astype(str): the identity on texts, "nan" for NaN, the numeral of a number
Str(c) ==
  CASE c.k = "nan" -> Txt(0)
    [] c.k = "int" -> NumStr(c.v)
    [] OTHER -> c

\* lexicographic rank of the texts case ids take: numerals, then capitalised
\* names, then the lower-case "nan"
StrRank(s) ==
  CASE s.k = "numstr" -> s.v
    [] s.k = "txt" /\ s.v > 0 -> 100 + s.v
    [] s.k = "txt" /\ s.v = 0 -> 1000
    [] OTHER -> 500 + s.v

\* pd.to_numeric(x, errors='coerce') of one cell
ToNumeric(c) ==
  CASE c.k = "int" -> Num(c.v)
    [] c.k = "numstr" -> Num(c.v)
    [] OTHER -> NumNaN

\* ------------------------------------------------------- parse_timestamps
formats == << "%Y-%m-%d %H:%M:%S", "%d/%m/%Y %H:%M:%S", "%m/%d/%Y %H:%M:%S",
              "%Y-%m-%d", "%d/%m/%Y", "%m/%d/%Y",
              "%d-%m-%Y %H:%M:%S", "%Y/%m/%d %H:%M:%S" >>

NaCount(parsed) == Cardinality({i \in DOMAIN parsed : ~parsed[i].ok})

\* the instant a day-first text denotes when it is read month first; only
\* that it is another instant matters
Exchanged(t) == t + 100

\* pd.to_datetime(series, format=formats[fi], errors='coerce')
ToDatetimeFormat(series, fi) ==
  [i \in DOMAIN series |->
     IF series[i].k = "date" /\ series[i].f = fi THEN At(series[i].v)
     ELSE IF series[i].k = "daymonth" /\ fi = 2 THEN At(series[i].v)
     ELSE IF series[i].k = "daymonth" /\ fi = 3 THEN At(Exchanged(series[i].v))
     ELSE NaT]

\* pd.to_datetime(series, errors='coerce'): the layout is inferred from the
\* first non-empty cell and applied to the whole column; when that cell has no
\* recognisable layout every cell is parsed on its own; a text that can be
\* read both ways is read month first (dayfirst=False)
ToDatetimeGeneric(series) ==
  LET filled == {i \in DOMAIN series : series[i].k # "nan"}
  IN IF filled = {} THEN [i \in DOMAIN series |-> NaT]
     ELSE LET first == series[CHOOSE i \in filled : \A j \in filled : i <= j]
          IN [i \in DOMAIN series |->
                IF series[i].k = "daymonth"
                THEN (IF first.k = "date" /\ first.f = 2 THEN At(series[i].v)
                      ELSE IF first.k = "date" /\ first.f # 3 THEN NaT
                      ELSE At(Exchanged(series[i].v)))
                ELSE IF series[i].k # "date" THEN NaT
                ELSE IF first.k = "date" /\ first.f # series[i].f THEN NaT
                ELSE IF first.k = "daymonth" /\ series[i].f # 3 THEN NaT
                ELSE At(series[i].v)]

\* faulty variant: the loop without its break, every format tried
RECURSIVE TryFormatsAll(_, _)
TryFormatsAll(series, fi) ==
  IF fi = Len(formats) THEN ToDatetimeFormat(series, fi)
  ELSE TryFormatsAll(series, fi + 1)

\* the loop over formats from formats[fi] on
RECURSIVE TryFormats(_, _)
TryFormats(series, fi) ==
  LET parsed == ToDatetimeFormat(series, fi)
  IN IF NaCount(parsed) * 2 < Len(series) \/ fi = Len(formats)
     THEN parsed
     ELSE TryFormats(series, fi + 1)

parse_timestamps(series) ==
  LET parsed == ToDatetimeGeneric(series)
  IN IF NaCount(parsed) * 2 > Len(series)
     THEN TryFormats(series, 1)
     ELSE parsed

\* ------------------------------------------------------- validate_mapping
required_fields == << "case_id", "activity", "start_time", "end_time" >>

Column(df, col) == [i \in DOMAIN df.rows |-> df.rows[i][col]]

IsNaAll(series) == \A i \in DOMAIN series : series[i].k = "nan"

\* Python truthiness of a mapping value
Truthy(x) == x # None /\ x # Empty

\* faulty variant: the no-such-column message carries the field, not the column
RECURSIVE RequiredErrorsNamingField(_, _, _)
RequiredErrorsNamingField(df, fm, i) ==
  IF i > Len(required_fields) THEN << >>
  ELSE LET field == required_fields[i]
           here == IF fm[field] = None
                   THEN << [code |-> "unmapped", name |-> field] >>
                   ELSE IF fm[field] \notin df.columns
                   THEN << [code |-> "no_column", name |-> field] >>
                   ELSE << >>
       IN here \o RequiredErrorsNamingField(df, fm, i + 1)

RECURSIVE RequiredErrors(_, _, _)
RequiredErrors(df, fm, i) ==
  IF i > Len(required_fields) THEN << >>
  ELSE LET field == required_fields[i]
           here == IF fm[field] = None
                   THEN << [code |-> "unmapped", name |-> field] >>
                   ELSE IF fm[field] \notin df.columns
                   THEN << [code |-> "no_column", name |-> fm[field]] >>
                   ELSE << >>
       IN here \o RequiredErrors(df, fm, i + 1)

\* [raised, key, errors]: raised is TRUE when df[col] raises KeyError(key).
\* A role whose key the mapping lacks reads as None, as field_mapping.get
\* gives it.
validate_mapping(df, fm) ==
  LET errors == RequiredErrors(df, fm, 1)
      start_col == fm["start_time"]
      end_col == fm["end_time"]
  IN IF Truthy(start_col) /\ Truthy(end_col)
     THEN IF start_col \notin df.columns
          THEN [raised |-> TRUE, key |-> start_col, errors |-> errors]
          ELSE IF end_col \notin df.columns
          THEN [raised |-> TRUE, key |-> end_col, errors |-> errors]
          ELSE [raised |-> FALSE, key |-> Empty,
                errors |-> errors
                  \o (IF IsNaAll(Column(df, start_col))
                      THEN << [code |-> "start_empty", name |-> start_col] >>
                      ELSE << >>)
                  \o (IF IsNaAll(Column(df, end_col))
                      THEN << [code |-> "end_empty", name |-> end_col] >>
                      ELSE << >>)]
     ELSE [raised |-> FALSE, key |-> Empty, errors |-> errors]

\* ----------------------------------------------------------- process_data
NoError == [kind |-> "none", code |-> "none", names |-> {}]

Failure(kind, code, names) ==
  [ok |-> FALSE, error |-> [kind |-> kind, code |-> code, names |-> names],
   combined_events |-> << >>, event_log |-> << >>, warned |-> FALSE]

\* faulty variant: the difference without max(duration, 0)
DurationUnclamped(start, end) ==
  IF start.ok /\ end.ok THEN end.t - start.t ELSE 0

\* (end - start).total_seconds() clamped by max(duration, 0); 0 when either is NaT
Duration(start, end) ==
  IF start.ok /\ end.ok
  THEN (IF end.t - start.t > 0 THEN end.t - start.t ELSE 0)
  ELSE 0

\* faulty variant: the event's timestamp taken from start_time
EventRowsStampedAtStart(df, fm) ==
  LET end_times == parse_timestamps(Column(df, fm["end_time"]))
      start_times == parse_timestamps(Column(df, fm["start_time"]))
  IN [i \in DOMAIN df.rows |->
        [case |-> Str(df.rows[i][fm["case_id"]]),
         act |-> Str(df.rows[i][fm["activity"]]),
         ts |-> start_times[i],
         cost |-> IF Truthy(fm["cost"]) THEN ToNumeric(df.rows[i][fm["cost"]])
                  ELSE Absent,
         res |-> IF Truthy(fm["resource"]) THEN Str(df.rows[i][fm["resource"]])
                 ELSE NoCell,
         dur |-> Duration(start_times[i], end_times[i]),
         idx |-> i]]

\* event_log_df before sorting: one event per input row; idx is the row's index
\* label, which reset_index(drop=True) later discards
EventRows(df, fm) ==
  LET end_times == parse_timestamps(Column(df, fm["end_time"]))
      start_times == parse_timestamps(Column(df, fm["start_time"]))
  IN [i \in DOMAIN df.rows |->
        [case |-> Str(df.rows[i][fm["case_id"]]),
         act |-> Str(df.rows[i][fm["activity"]]),
         ts |-> end_times[i],
         cost |-> IF Truthy(fm["cost"]) THEN ToNumeric(df.rows[i][fm["cost"]])
                  ELSE Absent,
         res |-> IF Truthy(fm["resource"]) THEN Str(df.rows[i][fm["resource"]])
                 ELSE NoCell,
         dur |-> Duration(start_times[i], end_times[i]),
         idx |-> i]]

\* faulty variant: sort_values(['case:concept:name']) alone
SortsBeforeByCaseOnly(a, b) == StrRank(a.case) < StrRank(b.case)

\* the order of sort_values(['case:concept:name', 'time:timestamp']): by case
\* text, then by instant with NaT last
SortsBefore(a, b) ==
  \/ StrRank(a.case) < StrRank(b.case)
  \/ /\ StrRank(a.case) = StrRank(b.case)
     /\ a.ts.ok
     /\ (~b.ts.ok \/ a.ts.t < b.ts.t)

RECURSIVE InsertSorted(_, _)
InsertSorted(sorted, e) ==
  IF sorted = << >> THEN << e >>
  ELSE IF SortsBefore(e, Head(sorted)) THEN << e >> \o sorted
  ELSE << Head(sorted) >> \o InsertSorted(Tail(sorted), e)

\* DataFrame.sort_values on several columns is a stable sort
RECURSIVE SortValuesFrom(_, _)
SortValuesFrom(evs, i) ==
  IF i = 0 THEN << >>
  ELSE InsertSorted(SortValuesFrom(evs, i - 1), evs[i])

SortValues(evs) == SortValuesFrom(evs, Len(evs))

\* faulty variant: no dropna
DropNothing(evs) == evs

\* dropna(subset=['time:timestamp'])
DropNaT(evs) == SelectSeq(evs, LAMBDA e : e.ts.ok)

\* pm4py.convert_to_event_log: one trace per case id, in order of first
\* appearance, the events of a trace in their order in the frame (the library
\* call is taken to succeed on a non-empty frame)
RECURSIVE CaseOrder(_)
CaseOrder(evs) ==
  IF evs = << >> THEN << >>
  ELSE LET rest == CaseOrder(SelectSeq(Tail(evs), LAMBDA e : e.case # Head(evs).case))
       IN << Head(evs).case >> \o rest

convert_to_event_log(evs) ==
  LET cases == CaseOrder(evs)
  IN [i \in DOMAIN cases |->
        [case |-> cases[i],
         events |-> SelectSeq(evs, LAMBDA e : e.case = cases[i])]]

\* faulty variant: no check that events remain after the drop
process_data_unchecked(df, fm) ==
  LET v == validate_mapping(df, fm)
  IN IF v.raised THEN Failure("KeyError", "key", {v.key})
     ELSE IF v.errors # << >>
     THEN Failure("ValueError", "validation",
                  {v.errors[i].name : i \in DOMAIN v.errors})
     ELSE IF Truthy(fm["cost"]) /\ fm["cost"] \notin df.columns
     THEN Failure("KeyError", "key", {fm["cost"]})
     ELSE IF Truthy(fm["resource"]) /\ fm["resource"] \notin df.columns
     THEN Failure("KeyError", "key", {fm["resource"]})
     ELSE LET sorted == SortValues(EventRows(df, fm))
              combined_events == DropNaT(sorted)
          IN [ok |-> TRUE, error |-> NoError,
              combined_events |-> combined_events,
              event_log |-> convert_to_event_log(combined_events),
              warned |-> Len(combined_events) * 2 < Len(sorted)]

process_data(df, fm) ==
  LET v == validate_mapping(df, fm)
  IN IF v.raised THEN Failure("KeyError", "key", {v.key})
     ELSE IF v.errors # << >>
     THEN Failure("ValueError", "validation",
                  {v.errors[i].name : i \in DOMAIN v.errors})
     ELSE IF Truthy(fm["cost"]) /\ fm["cost"] \notin df.columns
     THEN Failure("KeyError", "key", {fm["cost"]})
     ELSE IF Truthy(fm["resource"]) /\ fm["resource"] \notin df.columns
     THEN Failure("KeyError", "key", {fm["resource"]})
     ELSE LET sorted == SortValues(EventRows(df, fm))
              combined_events == DropNaT(sorted)
              initial_count == Len(sorted)
              final_count == Len(combined_events)
          IN IF final_count = 0
             THEN Failure("Exception", "no_valid_events", {})
             ELSE [ok |-> TRUE, error |-> NoError,
                   combined_events |-> combined_events,
                   event_log |-> convert_to_event_log(combined_events),
                   warned |-> final_count * 2 < initial_count]

\* ------------------------------------------------------------ input tables
TableColumns == {"case_id", "activity", "start_time", "end_time", "resource", "cost"}

Row(case, act, start, end, res, cost) ==
  [case_id |-> case, activity |-> act, start_time |-> start, end_time |-> end,
   resource |-> res, cost |-> cost]

Table(rows) == [columns |-> TableColumns, rows |-> rows]

\* a text that is no date and no number
Junk == Txt(9)

CaseCells == {IntCell(1), NumStr(1), NumStr(2)}
StartCells == {NaN, Junk, DateStr(1, 1), DateStr(1, 2)}
EndCells == {NaN, Junk, DateStr(1, 1), DateStr(1, 2)}
CostCells == {NaN, Junk, IntCell(-1), IntCell(2)}

\* rows that vary the case id and the completion instant
TimingRows ==
  {Row(c, Txt(1), DateStr(1, 1), e, Txt(3), IntCell(1)) : c \in CaseCells, e \in EndCells}
\* rows that vary the start and the completion instant
DurationRows ==
  {Row(NumStr(1), Txt(1), s, e, Txt(3), IntCell(1)) : s \in StartCells, e \in EndCells}
\* rows that vary the cost cell
CostRows ==
  {Row(NumStr(1), Txt(1), DateStr(1, 1), e, Txt(3), c) :
     c \in CostCells, e \in {Junk, DateStr(1, 2)}}

\* rows of two cases whose completion instant is no date, a date in the first
\* of the listed layouts, or a date in the last of them
DropRows ==
  {Row(c, Txt(1), DateStr(1, 1), e, Txt(3), IntCell(1)) :
     c \in {NumStr(1), NumStr(2)},
     e \in {Junk, DateStr(1, 2), DateStr(Len(formats), 3)}}

\* rows whose completion instant is written in the first layout, in the
\* third, in the second with a day that can be taken for a month, or is no date
OrderRows ==
  {Row(NumStr(1), Txt(1), DateStr(1, 1), e, Txt(3), IntCell(1)) :
     e \in {Junk, DateStr(1, 2), DayMonthStr(3), DateStr(3, 4)}}

\* tables of three such rows
OrderTables == {Table(<< a, b, c >>) : a, b, c \in OrderRows}

SeqsUpTo(S, n) == UNION {[1..m -> S] : m \in 1..n}

\* the tables one row longer, so that more than half of the rows can be
\* dropped while an event remains
LoaderTables ==
  {Table(rows) : rows \in SeqsUpTo(TimingRows, MaxRows) \cup SeqsUpTo(DurationRows, MaxRows)
                          \cup SeqsUpTo(CostRows, MaxRows)
                          \cup [1..(MaxRows + 1) -> DropRows]}
  \cup OrderTables

\* -------------------------------------------------------- field mappings
Mapping(case, act, start, end, cost, res) ==
  [case_id |-> case, activity |-> act, start_time |-> start, end_time |-> end,
   cost |-> cost, resource |-> res]

StdMapping == Mapping("case_id", "activity", "start_time", "end_time", "cost", "resource")
PlainMapping == Mapping("case_id", "activity", "start_time", "end_time", None, None)
NoMapping == Mapping(None, None, None, None, None, None)

\* "ghost" names a column no table has
\* the complete mapping with one required role, or two of them, varied
Varied1(field, x) == [StdMapping EXCEPT ![field] = x]
Varied2(f1, x, f2, y) == [StdMapping EXCEPT ![f1] = x, ![f2] = y]

VariedMappings ==
  {Varied1(required_fields[i], x) :
     i \in DOMAIN required_fields, x \in {None, Empty, "ghost"}}
  \cup {Varied2("case_id", x, "start_time", y) :
          x \in {None, Empty, "ghost"}, y \in {None, Empty, "ghost"}}
  \cup {Varied2("start_time", x, "end_time", y) :
          x \in {None, Empty, "ghost"}, y \in {None, Empty, "ghost"}}
  \cup {Varied2("activity", x, "end_time", y) :
          x \in {None, Empty, "ghost"}, y \in {None, Empty, "ghost"}}
  \cup {Mapping("case_id", "case_id", "start_time", "end_time", None, None),
        Mapping("case_id", "activity", "end_time", "end_time", None, None),
        Mapping("case_id", "activity", "activity", "end_time", None, None),
        Mapping("case_id", "activity", "start_time", "end_time", "ghost", None),
        Mapping("case_id", "activity", "start_time", "end_time", None, "ghost")}

\* the mappings tried on a table: every variation on the one-row tables that
\* vary the two instants, the two complete mappings on the others
LoaderMappings(df) ==
  IF Len(df.rows) = 1 /\ df.rows[1] \in DurationRows
  THEN VariedMappings \cup {StdMapping, PlainMapping}
  ELSE {StdMapping, PlainMapping}

\* ------------------------------------------------------------ the session
VARIABLES raw_data, data_loaded, mapped_data, event_log, field_mapping,
          analysis_results, last

vars == << raw_data, data_loaded, mapped_data, event_log, field_mapping,
           analysis_results, last >>

\* the empty dict
EmptyDict == [k \in {} |-> 0]

\* an attribute of st.session_state: unset / None, or a value
Nothing(dflt) == [some |-> FALSE, v |-> dflt]
Some(x) == [some |-> TRUE, v |-> x]

\* what the last handler did; again tells that a process_data attempt repeated
\* the mapping of the attempt right before it
Outcome(op, ok, error, fm, warned) ==
  [op |-> op, ok |-> ok, error |-> error, fm |-> fm, warned |-> warned,
   again |-> FALSE]

\* initialize_session_state
SessionInit ==
  /\ data_loaded = FALSE
  /\ mapped_data = Nothing(<< >>)
  /\ event_log = Nothing(<< >>)
  /\ analysis_results = EmptyDict
  /\ field_mapping = Nothing(NoMapping)
  /\ last = Outcome("init", TRUE, NoError, NoMapping, FALSE)

\* faulty variant: the coercion of case_id to text written back into the raw
\* table (no df.copy(), assignment into df)
ProcessClickInPlace(fm) ==
  LET r == process_data(raw_data.v, fm)
      df == raw_data.v
  IN /\ IF r.ok
        THEN /\ mapped_data' = Some(r.combined_events)
             /\ event_log' = Some(r.event_log)
             /\ field_mapping' = Some(fm)
             /\ raw_data' = Some([df EXCEPT !.rows =
                               [i \in DOMAIN df.rows |->
                                  [df.rows[i] EXCEPT ![fm["case_id"]] = Str(@)]]])
        ELSE UNCHANGED << mapped_data, event_log, field_mapping, raw_data >>
     /\ last' = [Outcome("process_data", r.ok, r.error, fm, r.warned)
                   EXCEPT !.again = (last.op = "process_data" /\ last.fm = fm)]
     /\ UNCHANGED << data_loaded, analysis_results >>

\* faulty variant: field_mapping stored before process_data is tried
ProcessClickStoringFirst(fm) ==
  LET r == process_data(raw_data.v, fm)
  IN /\ field_mapping' = Some(fm)
     /\ IF r.ok
        THEN /\ mapped_data' = Some(r.combined_events)
             /\ event_log' = Some(r.event_log)
        ELSE UNCHANGED << mapped_data, event_log >>
     /\ last' = [Outcome("process_data", r.ok, r.error, fm, r.warned)
                   EXCEPT !.again = (last.op = "process_data" /\ last.fm = fm)]
     /\ UNCHANGED << raw_data, data_loaded, analysis_results >>

\* the body of the "Procesar Datos" button: process_data, then the three
\* assignments, all inside one try
ProcessClick(fm) ==
  LET r == process_data(raw_data.v, fm)
  IN /\ IF r.ok
        THEN /\ mapped_data' = Some(r.combined_events)
             /\ event_log' = Some(r.event_log)
             /\ field_mapping' = Some(fm)
        ELSE UNCHANGED << mapped_data, event_log, field_mapping >>
     /\ last' = [Outcome("process_data", r.ok, r.error, fm, r.warned)
                   EXCEPT !.again = (last.op = "process_data" /\ last.fm = fm)]
     /\ UNCHANGED << raw_data, data_loaded, analysis_results >>

\* DataLoader.process_data called on a loaded table with any mapping
InitLoader ==
  /\ raw_data \in {Some(df) : df \in LoaderTables}
  /\ data_loaded = TRUE
  /\ mapped_data = Nothing(<< >>)
  /\ event_log = Nothing(<< >>)
  /\ analysis_results = EmptyDict
  /\ field_mapping = Nothing(NoMapping)
  /\ last = Outcome("show_data_loading", TRUE, NoError, NoMapping, FALSE)

NextLoader == \E fm \in LoaderMappings(raw_data.v) : ProcessClick(fm)

SpecLoader == InitLoader /\ [][NextLoader]_vars

\* ------------------------------------------------------------- numbers
\* The floats of the analyses are kept as exact fractions [n, d] in lowest
\* terms, d > 0; rounding is not modelled.
SecondsPerDay == 86400
TopN == 10

Abs(x) == IF x < 0 THEN 0 - x ELSE x

RECURSIVE GCD(_, _)
GCD(a, b) == IF b = 0 THEN a ELSE GCD(b, a % b)

Rat(n, d) ==
  LET g == GCD(Abs(n), d)
  IN [n |-> n \div g, d |-> d \div g]

Zero == Rat(0, 1)

LCM(a, b) == (a \div GCD(a, b)) * b

RatLess(a, b) ==
  LET l == LCM(a.d, b.d)
  IN a.n * (l \div a.d) < b.n * (l \div b.d)

RatMax(a, b) == IF RatLess(a, b) THEN b ELSE a

RatAdd(a, b) ==
  LET l == LCM(a.d, b.d)
  IN Rat(a.n * (l \div a.d) + b.n * (l \div b.d), l)

\* a / b for b > 0, and a * k for an integer k
RatDiv(a, b) ==
  LET gn == GCD(Abs(a.n), b.n)
      gd == GCD(a.d, b.d)
  IN IF a.n = 0 THEN Zero
     ELSE Rat((a.n \div gn) * (b.d \div gd), (a.d \div gd) * (b.n \div gn))

RatTimes(a, k) ==
  LET g == GCD(k, a.d)
  IN Rat(a.n * (k \div g), a.d \div g)

RECURSIVE RatSum(_)
RatSum(xs) == IF xs = << >> THEN Zero ELSE RatAdd(Head(xs), RatSum(Tail(xs)))

\* np.mean of a non-empty list
Mean(xs) == RatDiv(RatSum(xs), Rat(Len(xs), 1))

MaxOf(S) == CHOOSE x \in S : \A y \in S : y <= x
MinOf(S) == CHOOSE x \in S : \A y \in S : x <= y

\* total_seconds() / (24 * 3600)
Days(seconds) == Rat(seconds, SecondsPerDay)

\* the floor 0.001 of a case duration
MinDuration == Rat(1, 1000)

\* list.sort(key=..., reverse=True) on a count: stable, descending
RECURSIVE InsertByCount(_, _)
InsertByCount(sorted, e) ==
  IF sorted = << >> THEN << e >>
  ELSE IF e.count > Head(sorted).count THEN << e >> \o sorted
  ELSE << Head(sorted) >> \o InsertByCount(Tail(sorted), e)

RECURSIVE SortByCountFrom(_, _)
SortByCountFrom(xs, i) ==
  IF i = 0 THEN << >> ELSE InsertByCount(SortByCountFrom(xs, i - 1), xs[i])

SortByCount(xs) == SortByCountFrom(xs, Len(xs))

\* xs[:n]
Take(xs, n) == SubSeq(xs, 1, IF Len(xs) < n THEN Len(xs) ELSE n)

\* ----------------------------------------------------------------- variants
\* the activity names of a trace, in order
TraceActivities(trace) == [j \in DOMAIN trace.events |-> trace.events[j].act]

\* pm4py.get_variants: the traces grouped by their whole activity sequence,
\* the groups in order of first appearance; a group is [variant, count]
\* faulty variant: a trace of a known variant is not counted
CountIntoOnce(groups, variant) ==
  IF \E k \in DOMAIN groups : groups[k].variant = variant THEN groups
  ELSE Append(groups, [variant |-> variant, count |-> 1])

RECURSIVE CountInto(_, _)
CountInto(groups, variant) ==
  IF groups = << >> THEN << [variant |-> variant, count |-> 1] >>
  ELSE IF Head(groups).variant = variant
  THEN << [Head(groups) EXCEPT !.count = @ + 1] >> \o Tail(groups)
  ELSE << Head(groups) >> \o CountInto(Tail(groups), variant)

RECURSIVE get_variants_from(_, _)
get_variants_from(log, i) ==
  IF i = 0 THEN << >>
  ELSE CountInto(get_variants_from(log, i - 1), TraceActivities(log[i]))

get_variants(log) == get_variants_from(log, Len(log))

\* variant_freq: Variant / Cases (count) / Percentage per variant
VariantFreq(log) ==
  LET variants == get_variants(log)
      total_cases == Len(log)
  IN [i \in DOMAIN variants |->
        [variant |-> variants[i].variant,
         count |-> variants[i].count,
         percentage |-> IF total_cases > 0
                        THEN Rat(variants[i].count * 100, total_cases)
                        ELSE Zero]]

analyze_variants(log) ==
  LET variant_freq == SortByCount(VariantFreq(log))
      unique_variants == SelectSeq(variant_freq, LAMBDA v : v.count = 1)
  IN [num_variants |-> Len(get_variants(log)),
      top_variants |-> Take(variant_freq, TopN),
      conformance |-> IF variant_freq # << >>
                      THEN << [most_common_variant |-> variant_freq[1].variant,
                               cases_following |-> variant_freq[1].count,
                               conformance_rate |-> variant_freq[1].percentage] >>
                      ELSE << >>,
      unique_variants_count |-> Len(unique_variants),
      unique_variants_percentage |->
        IF variant_freq # << >>
        THEN Rat(Len(unique_variants) * 100, Len(variant_freq))
        ELSE Zero]

\* ------------------------------------------------------- analyze_process
RECURSIVE SumLen(_, _)
SumLen(log, i) == IF i = 0 THEN 0 ELSE Len(log[i].events) + SumLen(log, i - 1)

\* the activity names of the log's events
LogActivities(log) ==
  UNION {{log[i].events[j].act : j \in DOMAIN log[i].events} : i \in DOMAIN log}

\* the timestamps of a trace's events
Timestamps(trace) == {trace.events[j].ts.t : j \in DOMAIN trace.events}

\* a time:timestamp that cannot be compared with the others of its trace (a
\* text, or a zone-aware instant among naive ones): max(timestamps) raises
Uncomparable == [ok |-> FALSE, t |-> -1]

\* max(timestamps) - min(timestamps) raises on the trace: it is evaluated only
\* for more than one timestamp
RaisesOn(trace) ==
  /\ Len(trace.events) > 1
  /\ \E j \in DOMAIN trace.events : trace.events[j].ts = Uncomparable

\* the loop over the traces of analyze_process has no handler of its own: an
\* exception in it reaches the handler of the method, which raises
\* "Error en análisis de proceso"
analyze_process_raises(log) == \E i \in DOMAIN log : RaisesOn(log[i])

\* faulty variant: the case duration without its floor
ProcessCaseDurationUnfloored(trace) ==
  IF Len(trace.events) > 1
  THEN Days(MaxOf(Timestamps(trace)) - MinOf(Timestamps(trace)))
  ELSE Days(trace.events[1].dur)

\* the duration analyze_process gives a trace, in days: the span of its
\* timestamps, or the activity:duration of its only event, not below 0.001
ProcessCaseDuration(trace) ==
  IF Len(trace.events) > 1
  THEN RatMax(Days(MaxOf(Timestamps(trace)) - MinOf(Timestamps(trace))), MinDuration)
  ELSE RatMax(Days(trace.events[1].dur), MinDuration)

\* the basic statistics and the case durations of analyze_process
analyze_process(log) ==
  LET case_durations ==
        [i \in DOMAIN SelectSeq(log, LAMBDA t : Len(t.events) > 0) |->
           ProcessCaseDuration(SelectSeq(log, LAMBDA t : Len(t.events) > 0)[i])]
  IN [num_cases |-> Len(log),
      num_events |-> SumLen(log, Len(log)),
      num_activities |-> Cardinality(LogActivities(log)),
      case_durations |-> case_durations,
      avg_case_duration |-> IF case_durations # << >> THEN Mean(case_durations)
                            ELSE Zero,
      variant_stats |-> Take(SortByCount(VariantFreq(log)), TopN)]

\* --------------------------------------------------------- analyze_costs
RECURSIVE SumSeq(_)
SumSeq(xs) == IF xs = << >> THEN 0 ELSE Head(xs) + SumSeq(Tail(xs))

\* faulty variant: cost data taken to be a cost that is a number
has_numeric_cost(log) ==
  \E i \in DOMAIN log : \E j \in DOMAIN log[i].events :
    log[i].events[j].cost.k = "num"

\* 'cost:total' in event for some event of the log
has_cost_data(log) ==
  \E i \in DOMAIN log : \E j \in DOMAIN log[i].events :
    log[i].events[j].cost.k # "absent"

\* 'cost:total' in event and pd.notna(event['cost:total'])
HasCost(e) == e.cost.k = "num"

\* case_cost of analyze_costs: the sum of the costs the events of a trace have
CaseCost(trace) ==
  SumSeq([j \in DOMAIN trace.events |->
            IF HasCost(trace.events[j]) THEN trace.events[j].cost.v ELSE 0])

\* faulty variant: has_cost_data taken to hold for every log
analyze_costs_always(log) ==
  LET case_costs == [i \in DOMAIN log |-> CaseCost(log[i])]
      total_cost == SumSeq(case_costs)
      costs_by_case == SelectSeq(case_costs, LAMBDA c : c > 0)
      costs_by_activity == LogActivities(log)
  IN [some |-> TRUE,
      v |-> [total_cost |-> total_cost,
             avg_cost_per_case |-> Zero,
             avg_cost_per_activity |-> Zero,
             num_costed_cases |-> Len(costs_by_case),
             num_costed_activities |-> Cardinality(costs_by_activity)]]

\* None, or the statistics; costs_by_case holds the cases of positive cost,
\* costs_by_activity the activities of which an event has a cost
analyze_costs(log) ==
  IF ~has_cost_data(log) THEN [some |-> FALSE, v |-> << >>]
  ELSE
    LET case_costs == [i \in DOMAIN log |-> CaseCost(log[i])]
        total_cost == SumSeq(case_costs)
        costs_by_case == SelectSeq(case_costs, LAMBDA c : c > 0)
        costs_by_activity ==
          {a \in LogActivities(log) :
             \E i \in DOMAIN log : \E j \in DOMAIN log[i].events :
               log[i].events[j].act = a /\ HasCost(log[i].events[j])}
    IN [some |-> TRUE,
        v |-> [total_cost |-> total_cost,
               avg_cost_per_case |->
                 IF costs_by_case # << >> THEN Rat(total_cost, Len(costs_by_case))
                 ELSE Zero,
               avg_cost_per_activity |->
                 IF costs_by_activity # {}
                 THEN Rat(total_cost, Cardinality(costs_by_activity))
                 ELSE Zero,
               num_costed_cases |-> Len(costs_by_case),
               num_costed_activities |-> Cardinality(costs_by_activity)]]

\* ------------------------------------------------------ analyze_resources
AllEvents(log) == UNION {{log[i].events[j] : j \in DOMAIN log[i].events} : i \in DOMAIN log}

\* any('org:resource' in event ...)
has_resource_data(log) == \E e \in AllEvents(log) : e.res # NoCell

\* None without resource data; otherwise the number of resources, for each
\* resource the numbers of its activities and of its cases, and the mean number
\* of activities of a resource (the sum of the per-resource numbers is the
\* number of pairs of a resource and one of its activities).  The order of the
\* workload list follows the iteration of a set and is left out.
analyze_resources(log) ==
  IF ~has_resource_data(log) THEN [some |-> FALSE, v |-> << >>]
  ELSE LET resources == {e.res : e \in AllEvents(log)}
           resource_activities == [r \in resources |->
                                     {e.act : e \in {x \in AllEvents(log) : x.res = r}}]
           resource_cases == [r \in resources |->
                                {e.case : e \in {x \in AllEvents(log) : x.res = r}}]
       IN [some |-> TRUE,
           v |-> [num_resources |-> Cardinality(resources),
                  resource_workload |->
                    [r \in resources |->
                       [Activities |-> Cardinality(resource_activities[r]),
                        Cases |-> Cardinality(resource_cases[r])]],
                  avg_activities_per_resource |->
                    Rat(Cardinality({<< r, a >> \in resources \X LogActivities(log) :
                                       a \in resource_activities[r]}),
                        Cardinality(resources))]]

\* --------------------------------------------------- analyze_performance
\* calculated_duration of a trace, in days
PerformanceCaseDuration(trace) ==
  IF Len(trace.events) > 1
  THEN RatMax(Days(MaxOf(Timestamps(trace)) - MinOf(Timestamps(trace))), MinDuration)
  ELSE RatMax(Days(trace.events[1].dur), MinDuration)

\* unique_activities: the activities of a trace in order of first occurrence
RECURSIVE unique_activities(_)
unique_activities(activities) ==
  IF activities = << >> THEN << >>
  ELSE LET front == unique_activities(SubSeq(activities, 1, Len(activities) - 1))
           activity == activities[Len(activities)]
       IN IF \E k \in DOMAIN front : front[k] = activity THEN front
          ELSE Append(front, activity)

\* case_variants[case_id]
CaseVariant(trace) == unique_activities(TraceActivities(trace))

\* dict[variant].append(value): the groups keep their order of insertion
RECURSIVE AppendTo(_, _, _)
AppendTo(groups, variant, value) ==
  IF groups = << >> THEN << [variant |-> variant, values |-> << value >>] >>
  ELSE IF Head(groups).variant = variant
  THEN << [Head(groups) EXCEPT !.values = Append(@, value)] >> \o Tail(groups)
  ELSE << Head(groups) >> \o AppendTo(Tail(groups), variant, value)

\* variant_durations after the traces 1..i
RECURSIVE variant_durations(_, _)
variant_durations(log, i) ==
  IF i = 0 THEN << >>
  ELSE IF Len(log[i].events) = 0 \/ RaisesOn(log[i]) THEN variant_durations(log, i - 1)
  ELSE AppendTo(variant_durations(log, i - 1), CaseVariant(log[i]),
                PerformanceCaseDuration(log[i]))

\* case_cost of analyze_performance: the sum of the positive costs of a trace
PositiveCaseCost(trace) ==
  SumSeq([j \in DOMAIN trace.events |->
            IF HasCost(trace.events[j]) /\ trace.events[j].cost.v > 0
            THEN trace.events[j].cost.v ELSE 0])

\* variant_costs after the traces 1..i
RECURSIVE variant_costs(_, _)
variant_costs(log, i) ==
  IF i = 0 THEN << >>
  ELSE IF PositiveCaseCost(log[i]) > 0 /\ Len(log[i].events) > 0 /\ ~RaisesOn(log[i])
  THEN AppendTo(variant_costs(log, i - 1), CaseVariant(log[i]),
                Rat(PositiveCaseCost(log[i]), 1))
  ELSE variant_costs(log, i - 1)

\* faulty variant: among equal minimal means the last group is kept
ArgMinLast(groups) ==
  CHOOSE i \in DOMAIN groups :
    /\ \A k \in DOMAIN groups : ~RatLess(Mean(groups[k].values), Mean(groups[i].values))
    /\ \A k \in DOMAIN groups :
         Mean(groups[k].values) = Mean(groups[i].values) => k <= i

\* faulty variant: the first group of maximal mean is kept
ArgMaxFirst(groups) ==
  CHOOSE i \in DOMAIN groups :
    /\ \A k \in DOMAIN groups : ~RatLess(Mean(groups[i].values), Mean(groups[k].values))
    /\ \A k \in DOMAIN groups :
         Mean(groups[k].values) = Mean(groups[i].values) => i <= k

\* min(items, key=mean): the first group of minimal mean
ArgMinFirst(groups) ==
  CHOOSE i \in DOMAIN groups :
    /\ \A k \in DOMAIN groups : ~RatLess(Mean(groups[k].values), Mean(groups[i].values))
    /\ \A k \in DOMAIN groups :
         Mean(groups[k].values) = Mean(groups[i].values) => i <= k

\* ideal / average, 0 when the average is not positive
performance_ratio(ideal, avg) ==
  IF RatLess(Zero, avg) THEN RatDiv(ideal, avg) ELSE Zero

\* faulty variant: the percentage left unscaled
performance_percentage_unscaled(ratio) == ratio

performance_percentage(ratio) == RatTimes(ratio, 100)

\* sla_target_days = None
NoTarget == [some |-> FALSE, v |-> Zero]

\* faulty variant: a case whose duration equals the target counted as over it
sla_performance_strict(case_durations, sla_target_days) ==
  IF sla_target_days.some /\ sla_target_days.v # Zero
  THEN LET within == Len(SelectSeq(case_durations,
                                   LAMBDA d : RatLess(d, sla_target_days.v)))
           total_cases == Len(case_durations)
       IN [some |-> TRUE,
           v |-> [target_days |-> sla_target_days.v,
                  cases_within_sla |-> within,
                  total_cases |-> total_cases,
                  compliance_percentage |->
                    IF total_cases > 0 THEN Rat(within * 100, total_cases) ELSE Zero,
                  cases_over_sla |-> total_cases - within]]
  ELSE [some |-> FALSE, v |-> << >>]

\* sla_target_days: None or a number of days; a target of 0 is falsy
sla_performance(case_durations, sla_target_days) ==
  IF sla_target_days.some /\ sla_target_days.v # Zero
  THEN LET within == Len(SelectSeq(case_durations,
                                   LAMBDA d : ~RatLess(sla_target_days.v, d)))
           total_cases == Len(case_durations)
       IN [some |-> TRUE,
           v |-> [target_days |-> sla_target_days.v,
                  cases_within_sla |-> within,
                  total_cases |-> total_cases,
                  compliance_percentage |->
                    IF total_cases > 0 THEN Rat(within * 100, total_cases) ELSE Zero,
                  cases_over_sla |-> total_cases - within]]
  ELSE [some |-> FALSE, v |-> << >>]

\* the least and the greatest of a non-empty sequence of durations
RatMinOf(xs) == CHOOSE x \in {xs[i] : i \in DOMAIN xs} :
                  \A i \in DOMAIN xs : ~RatLess(xs[i], x)
RatMaxOf(xs) == CHOOSE x \in {xs[i] : i \in DOMAIN xs} :
                  \A i \in DOMAIN xs : ~RatLess(x, xs[i])

\* variant_comparison before it is sorted: one entry per variant, in the order
\* of variant_durations (Desviación_Estándar is left out)
variant_comparison(durations) ==
  [i \in DOMAIN durations |->
     [Variante |-> durations[i].variant,
      Casos |-> Len(durations[i].values),
      Duracion_Promedio |-> Mean(durations[i].values),
      Duracion_Minima |-> RatMinOf(durations[i].values),
      Duracion_Maxima |-> RatMaxOf(durations[i].values)]]

\* list.sort(key=Duración_Promedio): ascending, entries of equal mean keep
\* their order
RECURSIVE InsertByMean(_, _)
InsertByMean(sorted, e) ==
  IF sorted = << >> THEN << e >>
  ELSE IF RatLess(e.Duracion_Promedio, Head(sorted).Duracion_Promedio)
  THEN << e >> \o sorted
  ELSE << Head(sorted) >> \o InsertByMean(Tail(sorted), e)

RECURSIVE SortByMeanFrom(_, _)
SortByMeanFrom(xs, i) ==
  IF i = 0 THEN << >> ELSE InsertByMean(SortByMeanFrom(xs, i - 1), xs[i])

\* faulty variant: a sort that reverses the entries of equal mean
RECURSIVE SortByMeanReversingTies(_)
SortByMeanReversingTies(xs) ==
  IF xs = << >> THEN << >>
  ELSE InsertByMean(SortByMeanReversingTies(Tail(xs)), Head(xs))

SortByMean(xs) == SortByMeanFrom(xs, Len(xs))

analyze_performance(log, sla_target_days) ==
  LET traces == SelectSeq(log, LAMBDA t : Len(t.events) > 0 /\ ~RaisesOn(t))
      case_durations == [i \in DOMAIN traces |-> PerformanceCaseDuration(traces[i])]
  IN IF case_durations = << >>
     THEN [ok |-> FALSE, error |-> "no_valid_durations"]
     ELSE
       LET avg_process_duration == Mean(case_durations)
           durations == variant_durations(log, Len(log))
           ideal == ArgMinFirst(durations)
           ideal_duration == Mean(durations[ideal].values)
           duration_ratio == performance_ratio(ideal_duration, avg_process_duration)
           case_costs ==
             SelectSeq([i \in DOMAIN log |-> Rat(PositiveCaseCost(log[i]), 1)],
                       LAMBDA c : RatLess(Zero, c))
           avg_process_cost == IF case_costs # << >> THEN Mean(case_costs) ELSE Zero
           costs == variant_costs(log, Len(log))
           ideal_cost == IF costs # << >>
                         THEN Mean(costs[ArgMinFirst(costs)].values) ELSE Zero
           cost_ratio == performance_ratio(ideal_cost, avg_process_cost)
       IN [ok |-> TRUE,
           error |-> "",
           duration_performance |->
             [ideal_variant_duration |-> ideal_duration,
              avg_process_duration |-> avg_process_duration,
              performance_ratio |-> duration_ratio,
              performance_percentage |-> performance_percentage(duration_ratio),
              ideal_variant |-> durations[ideal].variant],
           cost_performance |->
             IF has_cost_data(log)
             THEN [some |-> TRUE,
                   v |-> [ideal_variant_cost |-> ideal_cost,
                          avg_process_cost |-> avg_process_cost,
                          performance_ratio |-> cost_ratio,
                          performance_percentage |-> performance_percentage(cost_ratio),
                          ideal_cost_variant |->
                            IF costs # << >>
                            THEN [some |-> TRUE, v |-> costs[ArgMinFirst(costs)].variant]
                            ELSE [some |-> FALSE, v |-> << >>]]]
             ELSE [some |-> FALSE, v |-> << >>],
           sla_performance |-> sla_performance(case_durations, sla_target_days),
           variant_duration_comparison |-> SortByMean(variant_comparison(durations))]

\* -------------------------------------------------------- uploaded files
FileA ==
  Table(<< Row(NumStr(1), Txt(1), DateStr(1, 1), DateStr(1, 2), Txt(3), IntCell(2)),
           Row(NumStr(2), Txt(1), DateStr(1, 1), DateStr(1, 3), Txt(3), IntCell(1)),
           Row(NumStr(1), Txt(2), DateStr(1, 2), DateStr(1, 4), Txt(4), NaN) >>)
FileB ==
  Table(<< Row(NumStr(3), Txt(2), DateStr(1, 5), DateStr(1, 6), Txt(3), NaN),
           Row(NumStr(3), Txt(1), NaN, Junk, Txt(3), NaN) >>)
\* a file with fewer than four columns
FileNarrow ==
  [columns |-> {"case_id", "activity", "end_time"},
   rows |-> << [case_id |-> NumStr(1), activity |-> Txt(1), end_time |-> DateStr(1, 1)] >>]
\* a file without rows
FileEmpty == Table(<< >>)

UploadedFiles == {FileA, FileB, FileNarrow, FileEmpty}

\* load_file: the error it raises, or "" when it returns the table
load_file(df) ==
  IF df.rows = << >> THEN "empty"
  ELSE IF Cardinality(df.columns) < 4 THEN "too_few_columns"
  ELSE ""

\* the six select boxes of the mapping page; "" is the blank first option
Selections ==
  {Mapping("case_id", "activity", "start_time", "end_time", "cost", "resource"),
   Mapping("case_id", "activity", "start_time", "end_time", Empty, Empty),
   Mapping("case_id", "activity", "end_time", "end_time", Empty, Empty),
   Mapping("case_id", "activity", "start_time", "start_time", Empty, Empty),
   Mapping("case_id", Empty, "start_time", "end_time", "cost", Empty)}

\* ---------------------------------------------------------- the handlers
show_data_loading(df) ==
  /\ IF load_file(df) = ""
     THEN /\ raw_data' = Some(df)
          /\ data_loaded' = TRUE
          /\ last' = Outcome("show_data_loading", TRUE, NoError, NoMapping, FALSE)
     ELSE /\ UNCHANGED << raw_data, data_loaded >>
          /\ last' = Outcome("show_data_loading", FALSE,
                             [kind |-> "Exception", code |-> load_file(df), names |-> {}],
                             NoMapping, FALSE)
  /\ UNCHANGED << mapped_data, event_log, field_mapping, analysis_results >>

Warned(op, code) ==
  Outcome(op, FALSE, [kind |-> "warning", code |-> code, names |-> {}], NoMapping, FALSE)

show_field_mapping(sel) ==
  \/ /\ ~data_loaded
     /\ last' = Warned("show_field_mapping", "not_loaded")
     /\ UNCHANGED << raw_data, data_loaded, mapped_data, event_log, field_mapping,
                     analysis_results >>
  \/ /\ data_loaded
     /\ \A f \in DOMAIN sel : sel[f] \in {Empty} \cup raw_data.v.columns
     /\ \E i \in DOMAIN required_fields : sel[required_fields[i]] = Empty
     /\ last' = Warned("show_field_mapping", "incomplete")
     /\ UNCHANGED << raw_data, data_loaded, mapped_data, event_log, field_mapping,
                     analysis_results >>
  \/ /\ data_loaded
     /\ \A f \in DOMAIN sel : sel[f] \in {Empty} \cup raw_data.v.columns
     /\ \A i \in DOMAIN required_fields : sel[required_fields[i]] # Empty
     /\ ProcessClick([sel EXCEPT !["cost"] = IF @ # Empty THEN @ ELSE None,
                                 !["resource"] = IF @ # Empty THEN @ ELSE None])

\* analysis_results[key] = value
Put(dict, key, value) ==
  [k \in DOMAIN dict \cup {key} |-> IF k = key THEN value ELSE dict[k]]

\* the except branch of a page: the call inside its try raised (a library
\* call failed), the error is shown and nothing is assigned
Raises(op) ==
  /\ last' = Outcome(op, FALSE, [kind |-> "Exception", code |-> "raised", names |-> {}],
                     NoMapping, FALSE)
  /\ UNCHANGED << raw_data, data_loaded, mapped_data, event_log, field_mapping,
                  analysis_results >>

show_process_analysis ==
  \/ /\ ~event_log.some
     /\ last' = Warned("show_process_analysis", "no_event_log")
     /\ UNCHANGED << raw_data, data_loaded, mapped_data, event_log, field_mapping,
                     analysis_results >>
  \/ /\ event_log.some
     /\ analysis_results' = Put(analysis_results, "process", analyze_process(event_log.v))
     /\ last' = Outcome("show_process_analysis", TRUE, NoError, NoMapping, FALSE)
     /\ UNCHANGED << raw_data, data_loaded, mapped_data, event_log, field_mapping >>
  \/ /\ event_log.some
     /\ Raises("show_process_analysis")

\* faulty variant: the analysis leaves the log with the repeated activities of
\* each trace removed
show_variant_analysis_in_place ==
  \/ /\ ~event_log.some
     /\ last' = Warned("show_variant_analysis", "no_event_log")
     /\ UNCHANGED << raw_data, data_loaded, mapped_data, event_log, field_mapping,
                     analysis_results >>
  \/ /\ event_log.some
     /\ analysis_results' = Put(analysis_results, "variants", analyze_variants(event_log.v))
     /\ event_log' =
          Some([i \in DOMAIN event_log.v |->
                  [event_log.v[i] EXCEPT !.events =
                     SelectSeq(@, LAMBDA e :
                       \A j \in DOMAIN event_log.v[i].events :
                         event_log.v[i].events[j].act = e.act
                           => event_log.v[i].events[j].idx >= e.idx)]])
     /\ last' = Outcome("show_variant_analysis", TRUE, NoError, NoMapping, FALSE)
     /\ UNCHANGED << raw_data, data_loaded, mapped_data, field_mapping >>
  \/ /\ event_log.some
     /\ Raises("show_variant_analysis")

show_variant_analysis ==
  \/ /\ ~event_log.some
     /\ last' = Warned("show_variant_analysis", "no_event_log")
     /\ UNCHANGED << raw_data, data_loaded, mapped_data, event_log, field_mapping,
                     analysis_results >>
  \/ /\ event_log.some
     /\ analysis_results' = Put(analysis_results, "variants", analyze_variants(event_log.v))
     /\ last' = Outcome("show_variant_analysis", TRUE, NoError, NoMapping, FALSE)
     /\ UNCHANGED << raw_data, data_loaded, mapped_data, event_log, field_mapping >>
  \/ /\ event_log.some
     /\ Raises("show_variant_analysis")

show_cost_analysis ==
  \/ /\ ~event_log.some
     /\ last' = Warned("show_cost_analysis", "no_event_log")
     /\ UNCHANGED << raw_data, data_loaded, mapped_data, event_log, field_mapping,
                     analysis_results >>
  \/ /\ event_log.some
     /\ field_mapping.v["cost"] = None
     /\ last' = Warned("show_cost_analysis", "no_cost_mapped")
     /\ UNCHANGED << raw_data, data_loaded, mapped_data, event_log, field_mapping,
                     analysis_results >>
  \/ /\ event_log.some
     /\ field_mapping.v["cost"] # None
     /\ analysis_results' = Put(analysis_results, "costs", analyze_costs(event_log.v))
     /\ last' = Outcome("show_cost_analysis", TRUE, NoError, NoMapping, FALSE)
     /\ UNCHANGED << raw_data, data_loaded, mapped_data, event_log, field_mapping >>
  \/ /\ event_log.some
     /\ field_mapping.v["cost"] # None
     /\ Raises("show_cost_analysis")

show_resource_analysis ==
  \/ /\ ~event_log.some
     /\ last' = Warned("show_resource_analysis", "no_event_log")
     /\ UNCHANGED << raw_data, data_loaded, mapped_data, event_log, field_mapping,
                     analysis_results >>
  \/ /\ event_log.some
     /\ field_mapping.v["resource"] = None
     /\ last' = Warned("show_resource_analysis", "no_resource_mapped")
     /\ UNCHANGED << raw_data, data_loaded, mapped_data, event_log, field_mapping,
                     analysis_results >>
  \/ /\ event_log.some
     /\ field_mapping.v["resource"] # None
     /\ analysis_results' =
          Put(analysis_results, "resources", analyze_resources(event_log.v))
     /\ last' = Outcome("show_resource_analysis", TRUE, NoError, NoMapping, FALSE)
     /\ UNCHANGED << raw_data, data_loaded, mapped_data, event_log, field_mapping >>
  \/ /\ event_log.some
     /\ field_mapping.v["resource"] # None
     /\ Raises("show_resource_analysis")

\* the page with its button pressed; the analysis is asked without an SLA target
show_performance_analysis ==
  \/ /\ ~event_log.some
     /\ last' = Warned("show_performance_analysis", "no_event_log")
     /\ UNCHANGED << raw_data, data_loaded, mapped_data, event_log, field_mapping,
                     analysis_results >>
  \/ /\ event_log.some
     /\ LET results == analyze_performance(event_log.v, NoTarget)
        IN IF results.ok
           THEN /\ analysis_results' = Put(analysis_results, "performance", results)
                /\ last' = Outcome("show_performance_analysis", TRUE, NoError,
                                   NoMapping, FALSE)
           ELSE /\ UNCHANGED analysis_results
                /\ last' = Outcome("show_performance_analysis", FALSE,
                                   [kind |-> "Exception", code |-> results.error,
                                    names |-> {}],
                                   NoMapping, FALSE)
     /\ UNCHANGED << raw_data, data_loaded, mapped_data, event_log, field_mapping >>
  \/ /\ event_log.some
     /\ Raises("show_performance_analysis")

Init ==
  /\ SessionInit
  /\ raw_data = Nothing(FileEmpty)

Next ==
  \/ \E df \in UploadedFiles : show_data_loading(df)
  \/ \E sel \in Selections : show_field_mapping(sel)
  \/ show_process_analysis
  \/ show_variant_analysis
  \/ show_cost_analysis
  \/ show_performance_analysis

Spec == Init /\ [][Next]_vars

\* ------------------------------------------------- the analyses on a log
\* The methods of ProcessAnalyzer applied to the logs process_data builds from
\* tables made of whole cases.  A case is a sequence of steps [act, start, end,
\* cost]; the i-th case of a table has case id i.
D(k) == k * SecondsPerDay
Day(k) == DateStr(1, D(k))

Step(act, start, end, cost) == [act |-> act, start |-> start, end |-> end, cost |-> cost]

ActA == Txt(1)
ActB == Txt(2)

\* cases that vary the activities and the instants
DurationShapes ==
  {<< Step(ActA, Day(0), Day(0), IntCell(1)) >>,
   << Step(ActA, Day(0), Day(1), IntCell(1)) >>,
   << Step(ActA, NaN, Day(1), IntCell(1)) >>,
   << Step(ActA, Day(1), Day(1), IntCell(1)), Step(ActB, Day(1), Day(1), IntCell(1)) >>,
   << Step(ActA, Day(1), Day(1), IntCell(1)), Step(ActB, Day(1), Day(2), IntCell(1)) >>,
   << Step(ActA, Day(1), Day(1), IntCell(1)), Step(ActB, Day(1), Day(3), IntCell(1)) >>,
   << Step(ActB, Day(1), Day(1), IntCell(1)), Step(ActA, Day(1), Day(2), IntCell(1)) >>,
   << Step(ActA, Day(1), Day(1), IntCell(1)), Step(ActB, Day(2), Day(2), IntCell(1)),
      Step(ActA, Day(3), Day(3), IntCell(1)) >>}

\* cases that vary the activities and the cost cells
CostShapes ==
  {<< Step(ActA, Day(0), Day(1), IntCell(2)) >>,
   << Step(ActA, Day(0), Day(1), NaN) >>,
   << Step(ActA, Day(0), Day(1), IntCell(0)) >>,
   << Step(ActA, Day(0), Day(1), IntCell(-1)) >>,
   << Step(ActB, Day(0), Day(1), IntCell(4)) >>,
   << Step(ActA, Day(1), Day(1), IntCell(2)), Step(ActB, Day(1), Day(2), IntCell(4)) >>,
   << Step(ActA, Day(1), Day(1), IntCell(2)), Step(ActB, Day(1), Day(2), Junk) >>,
   << Step(ActA, Day(1), Day(1), Junk), Step(ActB, Day(1), Day(3), NaN) >>}

CaseRows(c, shape) ==
  [j \in DOMAIN shape |->
     Row(c, shape[j].act, shape[j].start, shape[j].end, Txt(3), shape[j].cost)]

RECURSIVE Flatten(_)
Flatten(seqs) == IF seqs = << >> THEN << >> ELSE Head(seqs) \o Flatten(Tail(seqs))

CasesTable(shapes) ==
  Table(Flatten([i \in DOMAIN shapes |-> CaseRows(NumStr(i), shapes[i])]))

\* more variants than analyze_variants reports: one single-event case per
\* activity, TopN + 1 activities
WideTable ==
  Table([i \in 1..(TopN + 1) |->
           Row(Txt(i), Txt(i), Day(0), Day(1), Txt(3), IntCell(1))])

\* three cases: Start, Review, Approve over 2 days; the same over 4 days;
\* Start, Approve over 1 day
ExampleTable ==
  Table(<< Row(Txt(1), Txt(1), Day(0), Day(0), Txt(3), IntCell(1)),
           Row(Txt(1), Txt(2), Day(1), Day(1), Txt(3), IntCell(1)),
           Row(Txt(1), Txt(4), Day(2), Day(2), Txt(3), IntCell(1)),
           Row(Txt(2), Txt(1), Day(0), Day(0), Txt(3), IntCell(1)),
           Row(Txt(2), Txt(2), Day(2), Day(2), Txt(3), IntCell(1)),
           Row(Txt(2), Txt(4), Day(4), Day(4), Txt(3), IntCell(1)),
           Row(Txt(3), Txt(1), Day(0), Day(0), Txt(3), IntCell(1)),
           Row(Txt(3), Txt(4), Day(1), Day(1), Txt(3), IntCell(1)) >>)

\* ten single-event cases, seven of them of at most three days
SlaDays == << 1, 1, 2, 2, 3, 3, 3, 4, 5, 6 >>
SlaTable ==
  Table([i \in DOMAIN SlaDays |->
           Row(Txt(i), ActA, Day(0), Day(SlaDays[i]), Txt(3), IntCell(1))])

AnalyzerTables ==
  {CasesTable(shapes) : shapes \in SeqsUpTo(DurationShapes, MaxCases)
                                     \cup SeqsUpTo(CostShapes, MaxCases)}
  \cup {WideTable, ExampleTable, SlaTable}

\* the values given for sla_target_days: None, 0, and some numbers of days
SlaTargets ==
  {NoTarget, Some(Zero), Some(Rat(1, 2)), Some(Rat(1, 1)), Some(Rat(2, 1)), Some(Rat(3, 1))}

\* the session after a table was loaded and processed
InitAnalyzer ==
  \E df \in AnalyzerTables : \E fm \in {StdMapping, PlainMapping} :
    /\ process_data(df, fm).ok
    /\ raw_data = Some(df)
    /\ data_loaded = TRUE
    /\ mapped_data = Some(process_data(df, fm).combined_events)
    /\ event_log = Some(process_data(df, fm).event_log)
    /\ field_mapping = Some(fm)
    /\ analysis_results = EmptyDict
    /\ last = Outcome("process_data", TRUE, NoError, fm, process_data(df, fm).warned)

\* a method of ProcessAnalyzer called on the log, its result kept under the
\* key the pages use
CallAnalyzeProcess ==
  /\ analysis_results' = Put(analysis_results, "process", analyze_process(event_log.v))
  /\ last' = Outcome("analyze_process", TRUE, NoError, NoMapping, FALSE)
  /\ UNCHANGED << raw_data, data_loaded, mapped_data, event_log, field_mapping >>

CallAnalyzeVariants ==
  /\ analysis_results' = Put(analysis_results, "variants", analyze_variants(event_log.v))
  /\ last' = Outcome("analyze_variants", TRUE, NoError, NoMapping, FALSE)
  /\ UNCHANGED << raw_data, data_loaded, mapped_data, event_log, field_mapping >>

CallAnalyzeCosts ==
  /\ analysis_results' = Put(analysis_results, "costs", analyze_costs(event_log.v))
  /\ last' = Outcome("analyze_costs", TRUE, NoError, NoMapping, FALSE)
  /\ UNCHANGED << raw_data, data_loaded, mapped_data, event_log, field_mapping >>

CallAnalyzePerformance ==
  /\ analysis_results' =
       Put(analysis_results, "performance", analyze_performance(event_log.v, NoTarget))
  /\ last' = Outcome("analyze_performance", TRUE, NoError, NoMapping, FALSE)
  /\ UNCHANGED << raw_data, data_loaded, mapped_data, event_log, field_mapping >>

NextAnalyzer ==
  \/ CallAnalyzeProcess
  \/ CallAnalyzeVariants
  \/ CallAnalyzeCosts
  \/ CallAnalyzePerformance

SpecAnalyzer == InitAnalyzer /\ [][NextAnalyzer]_vars

\* --------------------------------------- analyze_performance with a target
\* analyze_performance(event_log, sla_target_days) on the same logs; last
\* keeps the target that was given
CallAnalyzePerformanceWith(sla_target_days) ==
  /\ analysis_results' =
       Put(analysis_results, "performance",
           analyze_performance(event_log.v, sla_target_days))
  /\ last' = [op |-> "analyze_performance", ok |-> TRUE, error |-> NoError,
              fm |-> NoMapping, warned |-> FALSE, again |-> FALSE,
              sla_target_days |-> sla_target_days]
  /\ UNCHANGED << raw_data, data_loaded, mapped_data, event_log, field_mapping >>

NextPerformance ==
  \E sla_target_days \in SlaTargets : CallAnalyzePerformanceWith(sla_target_days)

SpecPerformance == InitAnalyzer /\ [][NextPerformance]_vars

\* ----------------------------------------------- logs with a raising case
\* the log in which the traces at the positions in failing carry timestamps
\* that cannot be compared
Spoil(log, failing) ==
  [i \in DOMAIN log |->
     IF i \in failing
     THEN [case |-> log[i].case,
           events |-> [j \in DOMAIN log[i].events |->
                         [log[i].events[j] EXCEPT !.ts = Uncomparable]]]
     ELSE log[i]]

\* a log handed to ProcessAnalyzer in which some cases of several events raise
InitMalformed ==
  \E df \in AnalyzerTables : \E fm \in {StdMapping, PlainMapping} :
    /\ process_data(df, fm).ok
    /\ \E failing \in SUBSET DOMAIN process_data(df, fm).event_log :
         /\ \A i \in failing : Len(process_data(df, fm).event_log[i].events) > 1
         /\ event_log = Some(Spoil(process_data(df, fm).event_log, failing))
    /\ raw_data = Some(df)
    /\ data_loaded = TRUE
    /\ mapped_data = Some(process_data(df, fm).combined_events)
    /\ field_mapping = Some(fm)
    /\ analysis_results = EmptyDict
    /\ last = Outcome("process_data", TRUE, NoError, fm, process_data(df, fm).warned)

\* analyze_process on the log: its result, or the exception of its handler
CallAnalyzeProcessOrRaise ==
  \/ /\ ~analyze_process_raises(event_log.v)
     /\ CallAnalyzeProcess
  \/ /\ analyze_process_raises(event_log.v)
     /\ last' = Outcome("analyze_process", FALSE,
                        [kind |-> "Exception", code |-> "Error en análisis de proceso",
                         names |-> {}],
                        NoMapping, FALSE)
     /\ UNCHANGED << raw_data, data_loaded, mapped_data, event_log, field_mapping,
                     analysis_results >>

NextMalformed ==
  \/ CallAnalyzeProcessOrRaise
  \/ CallAnalyzePerformanceWith(NoTarget)

SpecMalformed == InitMalformed /\ [][NextMalformed]_vars

\* ------------------------------------------------------- the other pages
\* a page showing or exporting results: shown keeps what it took from the cache
Shown(op, value) ==
  [op |-> op, ok |-> TRUE, error |-> NoError, fm |-> NoMapping, warned |-> FALSE,
   again |-> FALSE, shown |-> value]

\* show_process_overview: analyze_process only when 'process' is not cached,
\* then the cached entry is displayed
show_process_overview ==
  \/ /\ ~event_log.some
     /\ last' = Warned("show_process_overview", "no_event_log")
     /\ UNCHANGED << raw_data, data_loaded, mapped_data, event_log, field_mapping,
                     analysis_results >>
  \/ /\ event_log.some
     /\ "process" \notin DOMAIN analysis_results
     /\ analysis_results' = Put(analysis_results, "process", analyze_process(event_log.v))
     /\ last' = Shown("show_process_overview", analyze_process(event_log.v))
     /\ UNCHANGED << raw_data, data_loaded, mapped_data, event_log, field_mapping >>
  \/ /\ event_log.some
     /\ "process" \in DOMAIN analysis_results
     /\ last' = Shown("show_process_overview", analysis_results["process"])
     /\ UNCHANGED << raw_data, data_loaded, mapped_data, event_log, field_mapping,
                     analysis_results >>
  \/ /\ event_log.some
     /\ "process" \notin DOMAIN analysis_results
     /\ Raises("show_process_overview")

\* what a call of an external service or library does: it returns a result
\* with success, it returns a result without success, or the page's try block
\* raises (in the preparation, or in the display of a successful result)
Outcomes == {"success", "unsuccessful", "raises"}

\* the directly-follows pairs of a log
DirectlyFollows(log) ==
  UNION {{<< log[i].events[j].act, log[i].events[j + 1].act >> :
            j \in 1..(Len(log[i].events) - 1)} : i \in DOMAIN log}

\* ProcessVisualizer.create_dfg: the image is left out, the metrics are kept
create_dfg(log, outcome) ==
  IF outcome = "unsuccessful" THEN [success |-> FALSE, error |-> "dfg"]
  ELSE [success |-> TRUE,
        metrics |-> [total_edges |-> Cardinality(DirectlyFollows(log)),
                     unique_activities |-> Cardinality(LogActivities(log))]]

\* the key of the entry of a visualization: 'viz_' and the type in lower case
VizKey == "viz_grafos_dirigidos_(dfg)"

\* faulty variant: viz_data stored whatever its success
show_visualizations_keeping(outcome) ==
  \/ /\ ~event_log.some
     /\ last' = Warned("show_visualizations", "no_event_log")
     /\ UNCHANGED << raw_data, data_loaded, mapped_data, event_log, field_mapping,
                     analysis_results >>
  \/ /\ event_log.some
     /\ outcome # "raises"
     /\ analysis_results' = Put(analysis_results, VizKey, create_dfg(event_log.v, outcome))
     /\ last' = Outcome("show_visualizations", create_dfg(event_log.v, outcome).success,
                        [kind |-> "result", code |-> outcome, names |-> {}],
                        NoMapping, FALSE)
     /\ UNCHANGED << raw_data, data_loaded, mapped_data, event_log, field_mapping >>
  \/ /\ event_log.some
     /\ outcome = "raises"
     /\ Raises("show_visualizations")

\* show_visualizations with the type "Grafos Dirigidos (DFG)"
show_visualizations(outcome) ==
  \/ /\ ~event_log.some
     /\ last' = Warned("show_visualizations", "no_event_log")
     /\ UNCHANGED << raw_data, data_loaded, mapped_data, event_log, field_mapping,
                     analysis_results >>
  \/ /\ event_log.some
     /\ outcome = "success"
     /\ analysis_results' = Put(analysis_results, VizKey, create_dfg(event_log.v, outcome))
     /\ last' = Outcome("show_visualizations", TRUE, NoError, NoMapping, FALSE)
     /\ UNCHANGED << raw_data, data_loaded, mapped_data, event_log, field_mapping >>
  \/ /\ event_log.some
     /\ outcome = "unsuccessful"
     /\ last' = Outcome("show_visualizations", FALSE,
                        [kind |-> "result", code |-> create_dfg(event_log.v, outcome).error,
                         names |-> {}],
                        NoMapping, FALSE)
     /\ UNCHANGED << raw_data, data_loaded, mapped_data, event_log, field_mapping,
                     analysis_results >>
  \/ /\ event_log.some
     /\ outcome = "raises"
     /\ Raises("show_visualizations")

\* AIAnalyzer.prepare_process_summary: the sections taken from the cached
\* analyses are left out, the metrics read from the log itself are kept; the
\* log None has no metrics
prepare_process_summary(log, results) ==
  IF log.some
  THEN [event_log_metrics |->
          Some([total_traces |-> Len(log.v),
                total_events |-> SumLen(log.v, Len(log.v)),
                unique_activities_count |-> Cardinality(LogActivities(log.v))])]
  ELSE [event_log_metrics |-> Nothing(<< >>)]

\* AIAnalyzer.general_process_analysis: the answer of the service is not
\* modelled beyond the summary it answers
general_process_analysis(process_summary, outcome) ==
  IF outcome = "unsuccessful" THEN [success |-> FALSE, error |-> "ai"]
  ELSE [success |-> TRUE, about |-> process_summary]

\* the key of the entry of an AI analysis: 'ai_' and the type in lower case
AiKey == "ai_análisis_general_del_proceso"

\* the button "Realizar Análisis con IA" of a page whose event log is checked
\* or not
AiClick(outcome) ==
  LET result == general_process_analysis(
                  prepare_process_summary(event_log, analysis_results), outcome)
  IN \/ /\ outcome = "success"
        /\ analysis_results' = Put(analysis_results, AiKey, result)
        /\ last' = Outcome("show_ai_analysis", TRUE, NoError, NoMapping, FALSE)
        /\ UNCHANGED << raw_data, data_loaded, mapped_data, event_log, field_mapping >>
     \/ /\ outcome = "unsuccessful"
        /\ last' = Outcome("show_ai_analysis", FALSE,
                           [kind |-> "result", code |-> result.error, names |-> {}],
                           NoMapping, FALSE)
        /\ UNCHANGED << raw_data, data_loaded, mapped_data, event_log, field_mapping,
                        analysis_results >>
     \/ /\ outcome = "raises"
        /\ Raises("show_ai_analysis")

\* faulty variant: the page without its test of the event log
show_ai_analysis_unguarded(outcome) == AiClick(outcome)

\* show_ai_analysis with the type "Análisis General del Proceso"
show_ai_analysis(outcome) ==
  \/ /\ ~event_log.some
     /\ last' = Warned("show_ai_analysis", "no_event_log")
     /\ UNCHANGED << raw_data, data_loaded, mapped_data, event_log, field_mapping,
                     analysis_results >>
  \/ /\ event_log.some
     /\ AiClick(outcome)

\* the entries the export page offers, every box left checked
ExportKeys == {"process", "variants", "costs", "resources", VizKey, AiKey}
selected_results == [k \in DOMAIN analysis_results \cap ExportKeys |-> analysis_results[k]]

\* show_export_results with "Generar Exportación" pressed
show_export_results(outcome) ==
  \/ /\ analysis_results = EmptyDict
     /\ last' = Warned("show_export_results", "no_results")
     /\ UNCHANGED << raw_data, data_loaded, mapped_data, event_log, field_mapping,
                     analysis_results >>
  \/ /\ analysis_results # EmptyDict
     /\ selected_results = EmptyDict
     /\ last' = Warned("show_export_results", "nothing_selected")
     /\ UNCHANGED << raw_data, data_loaded, mapped_data, event_log, field_mapping,
                     analysis_results >>
  \/ /\ analysis_results # EmptyDict
     /\ selected_results # EmptyDict
     /\ outcome = "success"
     /\ last' = Shown("show_export_results", selected_results)
     /\ UNCHANGED << raw_data, data_loaded, mapped_data, event_log, field_mapping,
                     analysis_results >>
  \/ /\ analysis_results # EmptyDict
     /\ selected_results # EmptyDict
     /\ outcome = "unsuccessful"
     /\ last' = Outcome("show_export_results", FALSE,
                        [kind |-> "result", code |-> "no_file", names |-> {}],
                        NoMapping, FALSE)
     /\ UNCHANGED << raw_data, data_loaded, mapped_data, event_log, field_mapping,
                     analysis_results >>
  \/ /\ analysis_results # EmptyDict
     /\ selected_results # EmptyDict
     /\ outcome = "raises"
     /\ Raises("show_export_results")

\* one upload: case 1 with one event of a day, case 2 with three events, one
\* activity met twice
PagesFile ==
  Table(<< Row(NumStr(1), ActA, Day(0), Day(1), Txt(3), IntCell(2)),
           Row(NumStr(2), ActA, Day(0), Day(2), Txt(3), IntCell(1)),
           Row(NumStr(2), ActB, Day(2), Day(3), Txt(4), NaN),
           Row(NumStr(2), ActA, Day(3), Day(4), Txt(3), IntCell(1)) >>)

PagesFiles == {PagesFile, FileEmpty}

\* every role mapped; start_time mapped to the end column and no optional
\* role; activity left blank
PagesSelections ==
  {Mapping("case_id", "activity", "start_time", "end_time", "cost", "resource"),
   Mapping("case_id", "activity", "end_time", "end_time", Empty, Empty),
   Mapping("case_id", Empty, "start_time", "end_time", "cost", Empty)}

NextPages ==
  \/ \E df \in PagesFiles : show_data_loading(df)
  \/ \E sel \in PagesSelections : show_field_mapping(sel)
  \/ show_process_analysis
  \/ show_variant_analysis
  \/ show_cost_analysis
  \/ show_resource_analysis
  \/ show_performance_analysis
  \/ show_process_overview
  \/ \E outcome \in Outcomes : show_visualizations(outcome)
  \/ \E outcome \in Outcomes : show_ai_analysis(outcome)
  \/ \E outcome \in Outcomes : show_export_results(outcome)

SpecPages == Init /\ [][NextPages]_vars

\* ================================================================ claims
Range(seq) == {seq[i] : i \in DOMAIN seq}

\* the events of the session's event log
LogEvents == UNION {Range(event_log.v[i].events) : i \in DOMAIN event_log.v}

\* a required role of fm that is unmapped, blank, or names no column of df
BadRoles(df, fm) ==
  {f \in Range(required_fields) : fm[f] = None \/ fm[f] \notin df.columns}

\* what an error has to name for those roles: the field when it is unmapped,
\* else the column that does not exist
MissingNames(df, fm) ==
  {IF fm[f] = None THEN f ELSE fm[f] : f \in BadRoles(df, fm)}

\* the instants parse_timestamps gives the rows of the loaded table
ParsedColumn(fm, role) == parse_timestamps(Column(raw_data.v, fm[role]))

Unparseable(parsed) == \A i \in DOMAIN parsed : ~parsed[i].ok

\* --- C1 (as claimed): right after a successful file load the cache of analysis
\* results is empty.
C1_CacheEmptyAfterLoad ==
  (last.op = "show_data_loading" /\ last.ok) => DOMAIN analysis_results = {}

\* --- C2: a process_data attempt whose mapping has a required role unmapped,
\* blank or naming a column the table lacks fails, its error names one of the
\* missing fields or columns, and the step leaves event_log, mapped_data and
\* field_mapping as they were.
C2_InvalidMappingRejected ==
  [][(last'.op = "process_data" /\ BadRoles(raw_data.v, last'.fm) # {})
       => /\ ~last'.ok
          /\ last'.error.names \cap MissingNames(raw_data.v, last'.fm) # {}
          /\ event_log' = event_log
          /\ mapped_data' = mapped_data
          /\ field_mapping' = field_mapping]_vars

\* a rejected attempt made after an event log had been built
C2_Witness ==
  /\ last.op = "process_data"
  /\ BadRoles(raw_data.v, last.fm) # {}
  /\ ~last.ok
  /\ event_log.some

\* --- C3 (as claimed): an event log is only ever built from a mapping whose four
\* required roles name existing and pairwise distinct columns.
C3_DistinctRequiredRoles ==
  event_log.some =>
    /\ BadRoles(raw_data.v, field_mapping.v) = {}
    /\ \A f, g \in Range(required_fields) :
         f # g => field_mapping.v[f] # field_mapping.v[g]

\* --- C3 (amended): an event log is only ever built from a mapping whose four
\* required roles name existing columns; two roles may name the same column.
C3_ExistingRequiredRoles ==
  /\ event_log.some =>
       /\ field_mapping.some
       /\ BadRoles(raw_data.v, field_mapping.v) = {}
  /\ (last.op = "process_data" /\ last.ok) => BadRoles(raw_data.v, last.fm) = {}

\* a log built from a mapping that gives two required roles the same column
C3_Witness ==
  /\ event_log.some
  /\ \E f, g \in Range(required_fields) :
       f # g /\ field_mapping.v[f] = field_mapping.v[g]

\* --- C4 (as claimed): process_data fails whenever parse_timestamps resolves no
\* cell of the mapped start_time column, or none of the mapped end_time column.
C4_UnparseableColumnFails ==
  (/\ last.op = "process_data"
   /\ BadRoles(raw_data.v, last.fm) = {}
   /\ \/ Unparseable(ParsedColumn(last.fm, "start_time"))
      \/ Unparseable(ParsedColumn(last.fm, "end_time")))
  => ~last.ok

\* --- C5: every event of a built log (frame and traces) has a resolved
\* timestamp, and no row whose end_time parse_timestamps leaves missing is an
\* event of it.
C5_TimestampsResolved ==
  event_log.some =>
    \A e \in LogEvents \cup Range(mapped_data.v) :
      /\ e.ts.ok
      /\ ParsedColumn(field_mapping.v, "end_time")[e.idx].ok

\* a log built from a table of which a row was dropped
C5_Witness ==
  /\ event_log.some
  /\ Len(mapped_data.v) < Len(raw_data.v.rows)
  /\ \E i \in DOMAIN raw_data.v.rows :
       ~ParsedColumn(field_mapping.v, "end_time")[i].ok

\* --- C6: in every trace of a built log the timestamps ascend: each event's
\* timestamp is <= the next one's.
C6_TracesAscending ==
  event_log.some =>
    \A i \in DOMAIN event_log.v :
      \A j \in 1..(Len(event_log.v[i].events) - 1) :
        event_log.v[i].events[j].ts.t <= event_log.v[i].events[j + 1].ts.t

\* a trace whose events stand in the reverse of their row order
C6_Witness ==
  /\ event_log.some
  /\ \E i \in DOMAIN event_log.v :
       \E j \in 1..(Len(event_log.v[i].events) - 1) :
         /\ event_log.v[i].events[j].idx > event_log.v[i].events[j + 1].idx
         /\ event_log.v[i].events[j].ts.t < event_log.v[i].events[j + 1].ts.t

\* the case ids (as texts) of the loaded table, and its rows of a case whose
\* end_time resolves
CaseIds(fm) ==
  {Str(raw_data.v.rows[i][fm["case_id"]]) : i \in DOMAIN raw_data.v.rows}
LiveRows(fm, c) ==
  {i \in DOMAIN raw_data.v.rows :
     /\ Str(raw_data.v.rows[i][fm["case_id"]]) = c
     /\ ParsedColumn(fm, "end_time")[i].ok}

\* --- C7: the built log has one trace per case id of the table that has a row
\* with a resolved end_time (the distinct case ids minus the wholly unparseable
\* ones), and the events of that trace are exactly those rows.
C7_CaseCount ==
  event_log.some =>
    LET fm == field_mapping.v
        live == {c \in CaseIds(fm) : LiveRows(fm, c) # {}}
    IN /\ Len(event_log.v) = Cardinality(CaseIds(fm)) - Cardinality(CaseIds(fm) \ live)
       /\ \A c \in live :
            \E i \in DOMAIN event_log.v :
              /\ event_log.v[i].case = c
              /\ {e.idx : e \in Range(event_log.v[i].events)} = LiveRows(fm, c)
              /\ Len(event_log.v[i].events) = Cardinality(LiveRows(fm, c))
              /\ \A k \in DOMAIN event_log.v : event_log.v[k].case = c => k = i

\* a log that lacks a case of the table and has another
C7_Witness ==
  /\ event_log.some
  /\ \E c \in CaseIds(field_mapping.v) : LiveRows(field_mapping.v, c) = {}
  /\ Len(event_log.v) >= 1

\* --- C8: process_data fails with the no-valid-events error when no row keeps a
\* timestamp, and a log it returns has a trace and no empty trace.
C8_NeverEmpty ==
  /\ (/\ last.op = "process_data"
      /\ BadRoles(raw_data.v, last.fm) = {}
      /\ ~IsNaAll(Column(raw_data.v, last.fm["start_time"]))
      /\ ~IsNaAll(Column(raw_data.v, last.fm["end_time"]))
      /\ last.fm["cost"] \in {None} \cup raw_data.v.columns
      /\ last.fm["resource"] \in {None} \cup raw_data.v.columns
      /\ Unparseable(ParsedColumn(last.fm, "end_time")))
     => (~last.ok /\ last.error.code = "no_valid_events")
  /\ event_log.some =>
       /\ Len(event_log.v) >= 1
       /\ Len(mapped_data.v) >= 1
       /\ \A i \in DOMAIN event_log.v : Len(event_log.v[i].events) >= 1

\* the empty-log failure
C8_Witness ==
  /\ last.op = "process_data"
  /\ ~last.ok
  /\ last.error.code = "no_valid_events"

\* --- C9: every event's duration is >= 0: end - start when both resolve and the
\* difference is not negative, else 0.
C9_DurationClamped ==
  event_log.some =>
    \A e \in LogEvents :
      LET start == ParsedColumn(field_mapping.v, "start_time")[e.idx]
          end == ParsedColumn(field_mapping.v, "end_time")[e.idx]
      IN /\ e.dur >= 0
         /\ (start.ok /\ end.ok /\ end.t - start.t >= 0) => e.dur = end.t - start.t
         /\ (~start.ok \/ ~end.ok \/ end.t - start.t < 0) => e.dur = 0

\* an event that starts after it ends, and one whose start does not resolve
C9_Witness ==
  /\ event_log.some
  /\ \E e \in LogEvents :
       LET start == ParsedColumn(field_mapping.v, "start_time")[e.idx]
       IN start.ok /\ start.t > e.ts.t /\ e.dur = 0
  /\ \E e \in LogEvents :
       ~ParsedColumn(field_mapping.v, "start_time")[e.idx].ok

\* --- C10 (as claimed): every event of a built log has a cost that is missing or
\* a number >= 0.
C10_CostNonNegative ==
  event_log.some =>
    \A e \in LogEvents : e.cost.k = "num" => e.cost.v >= 0

\* a mapping validate_mapping and the optional columns let through
MappingAccepted(df, fm) ==
  /\ BadRoles(df, fm) = {}
  /\ ~IsNaAll(Column(df, fm["start_time"]))
  /\ ~IsNaAll(Column(df, fm["end_time"]))
  /\ fm["cost"] \in {None} \cup df.columns
  /\ fm["resource"] \in {None} \cup df.columns

\* the rows of the loaded table whose end_time cell holds no date
NoDateRows(fm) ==
  {i \in DOMAIN raw_data.v.rows :
     raw_data.v.rows[i][fm["end_time"]].k \notin {"date", "daymonth"}}

\* an accepted attempt on a table of which some rows have an end_time that is
\* no date and the others a date
PartlyUnparseable ==
  /\ last.op = "process_data"
  /\ MappingAccepted(raw_data.v, last.fm)
  /\ NoDateRows(last.fm) # {}
  /\ NoDateRows(last.fm) # DOMAIN raw_data.v.rows

\* --- C11 (as claimed): when some rows have an unparseable end_time and the
\* others are valid, process_data succeeds, its log holds exactly the events of
\* the valid rows (so a case without a valid row has no trace), and a warning
\* is recorded.
C11_DroppedRowWarns ==
  PartlyUnparseable =>
    /\ last.ok
    /\ {e.idx : e \in LogEvents} = DOMAIN raw_data.v.rows \ NoDateRows(last.fm)
    /\ last.warned

Log == event_log.v
Has(key) == key \in DOMAIN analysis_results
Results(key) == analysis_results[key]

\* the traces of the log that have a given first-occurrence sequence
TracesOf(variant) == {i \in DOMAIN Log : CaseVariant(Log[i]) = variant}
CollapsedVariants == {CaseVariant(Log[i]) : i \in DOMAIN Log}

\* --- C13 (as claimed): analyze_variants groups the traces by their sequence of
\* first-occurrence activities: num_variants is the number of distinct such
\* sequences, and each reported variant counts the traces that have its
\* sequence.
C13_VariantsCollapseRepeats ==
  Has("variants") =>
    /\ Results("variants").num_variants = Cardinality(CollapsedVariants)
    /\ \A k \in DOMAIN Results("variants").top_variants :
         LET v == Results("variants").top_variants[k]
         IN v.count = Cardinality(TracesOf(unique_activities(v.variant)))

\* --- C14 (as claimed): the case counts of the variants reported by
\* analyze_variants add up to num_cases, and unique_variants_count is at most
\* num_variants.
C14_CountsSumToCases ==
  Has("variants") =>
    /\ SumSeq([k \in DOMAIN Results("variants").top_variants |->
                 Results("variants").top_variants[k].count]) = Len(Log)
    /\ Results("variants").unique_variants_count <= Results("variants").num_variants

\* --- C14 (amended): the case counts of all variants add up to num_cases;
\* top_variants holds the TopN most frequent of them, so its counts add up to
\* num_cases when there are at most TopN variants and to no more than
\* num_cases otherwise; unique_variants_count is at most num_variants.
C14_CountsSumWithinTop ==
  /\ SumSeq([k \in DOMAIN get_variants(Log) |-> get_variants(Log)[k].count]) = Len(Log)
  /\ Has("variants") =>
       LET r == Results("variants")
           reported == SumSeq([k \in DOMAIN r.top_variants |-> r.top_variants[k].count])
       IN /\ r.num_variants = Len(get_variants(Log))
          /\ Len(r.top_variants) = (IF r.num_variants < TopN THEN r.num_variants ELSE TopN)
          /\ r.num_variants <= TopN => reported = Len(Log)
          /\ reported <= Len(Log)
          /\ r.unique_variants_count <= r.num_variants
          /\ Has("process") => Results("process").num_cases = Len(Log)

\* two cases of one variant beside a case of another
C14_Witness ==
  /\ Has("variants")
  /\ Has("process")
  /\ Results("variants").num_variants = 2
  /\ Results("variants").unique_variants_count = 1
  /\ Results("process").num_cases = 3

\* the duration a trace is to have: in days, the span of its timestamps when
\* it has two events or more, the duration attribute of its only event
\* otherwise, and 0.001 when that is less
ExpectedDuration(trace) ==
  LET ts == {trace.events[j].ts.t : j \in DOMAIN trace.events}
      seconds == IF Len(trace.events) >= 2
                 THEN MaxOf(ts) - MinOf(ts)
                 ELSE trace.events[1].dur
  IN IF seconds * 1000 < SecondsPerDay THEN Rat(1, 1000)
     ELSE Rat(seconds, SecondsPerDay)

\* --- C15: every case duration of analyze_process and of analyze_performance
\* is >= 0.001 days: max(span of the timestamps, 0.001) for a trace of two or
\* more events, max(duration attribute in days, 0.001) for a trace of one.
C15_DurationFloor ==
  /\ Has("process") =>
       /\ Len(Results("process").case_durations) = Len(Log)
       /\ \A i \in DOMAIN Log :
            /\ Results("process").case_durations[i] = ExpectedDuration(Log[i])
            /\ ~RatLess(Results("process").case_durations[i], Rat(1, 1000))
  /\ Has("performance") =>
       /\ Results("performance").duration_performance.avg_process_duration
            = Mean([i \in DOMAIN Log |-> ExpectedDuration(Log[i])])
       /\ ~RatLess(Results("performance").duration_performance.ideal_variant_duration,
                   Rat(1, 1000))

\* a log with a one-event trace of a whole day, a one-event trace raised to
\* the floor, or a trace of two events at one instant, analysed both ways
C15_Witness ==
  /\ Has("process")
  /\ Has("performance")
  /\ \E i \in DOMAIN Log :
       Len(Log[i].events) = 1 /\ Results("process").case_durations[i] = Rat(1, 1)
  /\ \E i \in DOMAIN Log :
       /\ Results("process").case_durations[i] = Rat(1, 1000)
       /\ \/ Len(Log[i].events) = 1
          \/ Len(Log[i].events) = 2

EventCosts ==
  [i \in DOMAIN Log |->
     SumSeq([j \in DOMAIN Log[i].events |->
               IF Log[i].events[j].cost.k = "num" THEN Log[i].events[j].cost.v ELSE 0])]

\* no event of the log has a negative cost
NoNegativeCost ==
  \A i \in DOMAIN Log : \A j \in DOMAIN Log[i].events :
    Log[i].events[j].cost.k = "num" => Log[i].events[j].cost.v >= 0

\* --- C17 (as claimed): total_cost is the sum of all event costs,
\* avg_cost_per_case is total_cost over the number of cases of the log and
\* avg_cost_per_activity is total_cost over the number of its activities
\* (stated for the logs without a negative cost).
C17_AveragesOverDistinctCounts ==
  (Has("costs") /\ Results("costs").some /\ NoNegativeCost) =>
    /\ Results("costs").v.total_cost = SumSeq(EventCosts)
    /\ Results("costs").v.avg_cost_per_case = Rat(SumSeq(EventCosts), Len(Log))
    /\ Results("costs").v.avg_cost_per_activity
         = Rat(SumSeq(EventCosts), Cardinality(LogActivities(Log)))

\* the mean expected duration of the traces of a variant, and its first trace
MeanDurationOf(variant) ==
  LET members == SelectSeq([i \in DOMAIN Log |-> i], LAMBDA i : i \in TracesOf(variant))
  IN Mean([k \in DOMAIN members |-> ExpectedDuration(Log[members[k]])])
FirstTraceOf(variant) == MinOf(TracesOf(variant))

\* --- C18: the ideal variant of analyze_performance has a minimal mean case
\* duration among all variants, and among the variants of that mean it is the
\* one met first when the traces are gone through in order.
C18_IdealVariantMinimalFirst ==
  Has("performance") =>
    LET d == Results("performance").duration_performance
    IN /\ d.ideal_variant \in CollapsedVariants
       /\ d.ideal_variant_duration = MeanDurationOf(d.ideal_variant)
       /\ \A w \in CollapsedVariants :
            /\ ~RatLess(MeanDurationOf(w), d.ideal_variant_duration)
            /\ (w # d.ideal_variant /\ MeanDurationOf(w) = d.ideal_variant_duration)
                 => FirstTraceOf(d.ideal_variant) < FirstTraceOf(w)
       /\ raw_data.v = ExampleTable =>
            /\ d.ideal_variant = << Txt(1), Txt(4) >>
            /\ d.ideal_variant_duration = Rat(1, 1)
            /\ d.avg_process_duration = Rat(7, 3)
            /\ d.performance_ratio = Rat(3, 7)

\* two variants of the same minimal mean
C18_Witness ==
  /\ Has("performance")
  /\ \E w \in CollapsedVariants :
       /\ w # Results("performance").duration_performance.ideal_variant
       /\ MeanDurationOf(w)
            = Results("performance").duration_performance.ideal_variant_duration

SomePositiveCost ==
  \E i \in DOMAIN Log : \E j \in DOMAIN Log[i].events :
    Log[i].events[j].cost.k = "num" /\ Log[i].events[j].cost.v > 0

ExpectedCaseCost(i) ==
  SumSeq([j \in DOMAIN Log[i].events |->
            IF Log[i].events[j].cost.k = "num" /\ Log[i].events[j].cost.v > 0
            THEN Log[i].events[j].cost.v ELSE 0])
CostedTraces == {i \in DOMAIN Log : ExpectedCaseCost(i) > 0}
MeanCostOver(traces) ==
  LET members == SelectSeq([i \in DOMAIN Log |-> i], LAMBDA i : i \in traces)
  IN Mean([k \in DOMAIN members |-> Rat(ExpectedCaseCost(members[k]), 1)])
CostedVariants == {CaseVariant(Log[i]) : i \in CostedTraces}

GivenTarget == last.sla_target_days
CalledWithTarget == last.op = "analyze_performance" /\ Has("performance")
WithinTarget(target) ==
  {i \in DOMAIN Log : ~RatLess(target, ExpectedDuration(Log[i]))}

\* --- C21: whenever analyze_performance returns an SLA record,
\* cases_within_sla is the number of cases whose duration is <= the target,
\* cases_within_sla + cases_over_sla = total_cases (the number of cases) and
\* compliance_percentage = cases_within_sla / total_cases x 100; 7 of 10 cases
\* within a target of 3 days give 70.
C21_SlaRecord ==
  (CalledWithTarget /\ Results("performance").sla_performance.some) =>
    LET r == Results("performance").sla_performance.v
    IN /\ r.target_days = GivenTarget.v
       /\ r.total_cases = Len(Log)
       /\ r.cases_within_sla = Cardinality(WithinTarget(r.target_days))
       /\ r.cases_within_sla + r.cases_over_sla = r.total_cases
       /\ r.cases_over_sla >= 0
       /\ r.compliance_percentage = Rat(r.cases_within_sla * 100, r.total_cases)
       /\ (raw_data.v = SlaTable /\ r.target_days = Rat(3, 1)) =>
            /\ r.total_cases = 10
            /\ r.cases_within_sla = 7
            /\ r.compliance_percentage = Rat(70, 1)

\* an SLA record for a log with a case exactly on the target and a case over it
C21_Witness ==
  /\ CalledWithTarget
  /\ Results("performance").sla_performance.some
  /\ \E i \in DOMAIN Log : ExpectedDuration(Log[i]) = GivenTarget.v
  /\ Results("performance").sla_performance.v.cases_over_sla > 0
  /\ Results("performance").sla_performance.v.cases_within_sla > 0

\* --- C22: analyze_performance returns an SLA record if and only if a target
\* is given: for every numeric target, a target of 0 included, sla_performance
\* is computed; it is None only when no target is given.
C22_SlaRecordIffTarget ==
  CalledWithTarget =>
    (Results("performance").sla_performance.some <=> GivenTarget.some)

\* the pages that call an analysis, a visualization or the AI service
CallingPages ==
  {"show_process_analysis", "show_variant_analysis", "show_cost_analysis",
   "show_resource_analysis", "show_performance_analysis", "show_process_overview",
   "show_visualizations", "show_ai_analysis"}

\* --- C23: when a visualization, an AI request or an analysis call fails (it
\* raises, or it returns a result without success), every entry of
\* analysis_results keeps its value and no entry is added.
C23_FailureKeepsCache ==
  [][(/\ last'.op \in CallingPages
      /\ ~last'.ok
      /\ last'.error.kind \in {"Exception", "result"})
       => analysis_results' = analysis_results]_vars

\* an AI request that came back without success while an analysis and a
\* visualization were cached
C23_Witness ==
  /\ last.op = "show_ai_analysis"
  /\ ~last.ok
  /\ last.error.kind = "result"
  /\ Has("process")
  /\ Has(VizKey)
  /\ ~Has(AiKey)

\* the pages that run an analysis of ProcessAnalyzer
AnalysisPages ==
  {"show_process_analysis", "show_variant_analysis", "show_cost_analysis",
   "show_resource_analysis", "show_performance_analysis", "show_process_overview"}

\* --- C24: no analysis (analyze_process, analyze_variants, analyze_costs,
\* analyze_resources, analyze_performance) changes the event log: across every
\* step of an analysis page the session's event_log keeps its traces, events
\* and attribute values.
C24_AnalysesKeepLog ==
  [][last'.op \in AnalysisPages => event_log' = event_log]_vars

\* the five analyses have run on the log of the session
C24_Witness ==
  /\ event_log.some
  /\ last.op \in AnalysisPages
  /\ last.ok
  /\ {"process", "variants", "costs", "resources", "performance"}
       \subseteq DOMAIN analysis_results

\* a format under which strictly fewer than half of the cells stay unparsed
FormatPasses(series, fi) == NaCount(ToDatetimeFormat(series, fi)) * 2 < Len(series)
PassingFormats(series) == {fi \in DOMAIN formats : FormatPasses(series, fi)}
GenericFails(series) == NaCount(ToDatetimeGeneric(series)) * 2 > Len(series)

\* --- C25: parse_timestamps applies generic inference first; it goes on to the
\* listed formats only if more than half of the generic results are missing
\* (exactly half missing: no retry); it tries the formats in the listed order
\* and returns the result of the first one that leaves strictly fewer than
\* half of the cells missing.  Checked on the two date columns of every
\* accepted attempt, and on the timestamps of the frame process_data returns.
C25_ParseOrder ==
  (last.op = "process_data" /\ MappingAccepted(raw_data.v, last.fm)) =>
    /\ \A role \in {"start_time", "end_time"} :
         LET series == Column(raw_data.v, last.fm[role])
         IN /\ ~GenericFails(series)
                 => parse_timestamps(series) = ToDatetimeGeneric(series)
            /\ (GenericFails(series) /\ PassingFormats(series) # {})
                 => parse_timestamps(series)
                      = ToDatetimeFormat(series, MinOf(PassingFormats(series)))
    /\ last.ok =>
         LET series == Column(raw_data.v, last.fm["end_time"])
         IN \A e \in Range(mapped_data.v) :
              /\ ~GenericFails(series) => e.ts = ToDatetimeGeneric(series)[e.idx]
              /\ (GenericFails(series) /\ PassingFormats(series) # {})
                   => e.ts = ToDatetimeFormat(series, MinOf(PassingFormats(series)))[e.idx]

\* a column the generic inference reads in the first layout, losing two cells
\* of three, and that two of the listed formats read: the earlier one gave the
\* timestamps
C25_Witness ==
  /\ last.op = "process_data"
  /\ last.ok
  /\ GenericFails(Column(raw_data.v, last.fm["end_time"]))
  /\ Cardinality(PassingFormats(Column(raw_data.v, last.fm["end_time"]))) = 2
  /\ \E e \in Range(mapped_data.v) :
       /\ raw_data.v.rows[e.idx][last.fm["end_time"]].k = "daymonth"
       /\ e.ts = At(raw_data.v.rows[e.idx][last.fm["end_time"]].v)


\* the cases of the log whose processing does not raise
UsableCases == SelectSeq(Log, LAMBDA t : Len(t.events) > 0 /\ ~RaisesOn(t))
SomeCaseRaises == \E i \in DOMAIN Log : RaisesOn(Log[i])

\* analyze_performance skips the raising cases: it succeeds whenever a case
\* remains, with the mean over the remaining cases
PerformanceSkipsRaisingCases ==
  (last.op = "analyze_performance" /\ Has("performance")) =>
    /\ Results("performance").ok <=> UsableCases # << >>
    /\ Results("performance").ok =>
         Results("performance").duration_performance.avg_process_duration
           = Mean([i \in DOMAIN UsableCases |-> ExpectedDuration(UsableCases[i])])

\* analyze_process skips the raising cases: it succeeds whenever a case remains
ProcessSkipsRaisingCases ==
  (last.op = "analyze_process" /\ UsableCases # << >>) => last.ok

Analysed ==
  /\ last.op = "analyze_performance"
  /\ Has("performance")
  /\ Results("performance").ok
DurationRecord == Results("performance").duration_performance

Comparison == Results("performance").variant_duration_comparison

\* --- C28: in every result of analyze_performance,
\* variant_duration_comparison is sorted ascending by mean duration and its
\* first entry is the ideal variant: the same variant as
\* duration_performance.ideal_variant with the same mean, also when several
\* variants tie on the minimal mean duration.
C28_ComparisonStartsWithIdeal ==
  Analysed =>
    /\ Comparison # << >>
    /\ \A i, k \in DOMAIN Comparison :
         i < k => ~RatLess(Comparison[k].Duracion_Promedio, Comparison[i].Duracion_Promedio)
    /\ {Comparison[i].Variante : i \in DOMAIN Comparison}
         = {CaseVariant(Log[i]) : i \in DOMAIN Log}
    /\ Comparison[1].Variante = DurationRecord.ideal_variant
    /\ Comparison[1].Duracion_Promedio = DurationRecord.ideal_variant_duration

\* two variants tie on the minimal mean duration
C28_Witness ==
  /\ Analysed
  /\ Len(Comparison) >= 2
  /\ Comparison[1].Duracion_Promedio = Comparison[2].Duracion_Promedio
  /\ Comparison[1].Variante # Comparison[2].Variante


\* --- C29: in every reachable session state, analysis_results holds an entry
\* only if an event log has been built: nothing is recorded while event_log is
\* None, and event_log is set only after a file was loaded (data_loaded) and a
\* mapping was processed successfully (field_mapping stored).
C29_ResultsNeedLog ==
  /\ analysis_results # EmptyDict => event_log.some
  /\ event_log.some =>
       /\ data_loaded
       /\ raw_data.some
       /\ field_mapping.some
       /\ mapped_data.some
       /\ event_log.v # << >>

\* an analysis, a visualization and an AI result recorded in a session whose
\* event log was built
C29_Witness ==
  /\ AiKey \in DOMAIN analysis_results
  /\ VizKey \in DOMAIN analysis_results
  /\ "process" \in DOMAIN analysis_results
  /\ event_log.some


\* --- C30: every entry served from analysis_results was computed from the
\* event log currently stored in the session: after a successful re-processing
\* replaced event_log, no result computed from the previous log is displayed
\* or exported, in particular the 'process' entry that show_process_overview
\* reuses when it is cached.
C30_ServedFromCurrentLog ==
  /\ (last.op = "show_process_overview" /\ "shown" \in DOMAIN last) =>
       last.shown = analyze_process(event_log.v)
  /\ (last.op = "show_export_results" /\ "shown" \in DOMAIN last) =>
       /\ "process" \in DOMAIN last.shown =>
            last.shown["process"] = analyze_process(event_log.v)
       /\ "variants" \in DOMAIN last.shown =>
            last.shown["variants"] = analyze_variants(event_log.v)

====
